---- MODULE Spec2Model ----
(***************************************************************************)
(* Payroll aggregation engine of attendance_app / payroll.                 *)
(*                                                                         *)
(* Time is kept in whole minutes of local civil time (the project runs in  *)
(* one fixed-offset zone, so the UTC <-> local conversion is a constant    *)
(* shift and is left out).  A date is its proleptic Gregorian ordinal, as  *)
(* Python's date.toordinal(); a datetime is                                *)
(*     (ordinal - EpochOrd) * MinPerDay + minute of the day.               *)
(* Money is whole yen.  Decimal rates are scaled integers: special_rate in *)
(* hundredths (2 decimal places), employment_ins_rate in millionths (6).   *)
(***************************************************************************)
EXTENDS Integers, Sequences, FiniteSets, TLC

\* ------------------------------------------------------------------------
\* Small arithmetic helpers (Decimal.quantize roundings)
\* ------------------------------------------------------------------------

Min2(a, b) == IF a <= b THEN a ELSE b

Max2(a, b) == IF a >= b THEN a ELSE b

\* n / d rounded to an integer, ROUND_HALF_UP (n >= 0, d > 0)
RoundHalfUp(n, d) == (2 * n + d) \div (2 * d)

\* n / d rounded to an integer, ROUND_HALF_EVEN, the Decimal context default
RoundHalfEven(n, d) ==
    LET q == n \div d
        r == n % d
    IN  IF 2 * r < d THEN q
        ELSE IF 2 * r > d THEN q + 1
        ELSE IF q % 2 = 0 THEN q ELSE q + 1

\* ------------------------------------------------------------------------
\* Calendar (datetime.date / datetime.datetime / calendar.monthrange)
\* ------------------------------------------------------------------------

MinPerDay == 1440

\* ordinal of 2024-01-01, the origin of the minute count
EpochOrd == 738886

IsLeap(y) == (y % 4 = 0) /\ ((y % 100 # 0) \/ (y % 400 = 0))

DaysInMonth(y, m) ==
    IF m = 2 THEN (IF IsLeap(y) THEN 29 ELSE 28)
    ELSE IF m \in {4, 6, 9, 11} THEN 30 ELSE 31

RECURSIVE DaysBeforeMonth(_, _)
DaysBeforeMonth(y, m) ==
    IF m <= 1 THEN 0 ELSE DaysBeforeMonth(y, m - 1) + DaysInMonth(y, m - 1)

DaysBeforeYear(y) ==
    LET p == y - 1 IN p * 365 + p \div 4 - p \div 100 + p \div 400

\* date(y, m, d) raises ValueError unless the day exists in the month
ValidDate(y, m, d) ==
    y \in 1..9999 /\ m \in 1..12 /\ d \in 1..DaysInMonth(y, m)

\* date(y, m, d).toordinal()
MkDate(y, m, d) == DaysBeforeYear(y) + DaysBeforeMonth(y, m) + d

\* date.weekday(): 0 = Monday ... 6 = Sunday
Weekday(ord) == (ord + 6) % 7

\* datetime(y, m, d, 0, 0) made aware in the local zone
MkDateTime(y, m, d) == (MkDate(y, m, d) - EpochOrd) * MinPerDay

\* datetime.date() and the wall-clock minute of a datetime
DateOf(ts) == EpochOrd + ts \div MinPerDay

MinuteOf(ts) == ts % MinPerDay

\* dt.replace(hour=h, minute=m, second=0, microsecond=0), tod = 60 h + m
AtTimeOfDay(ts, tod) == (ts \div MinPerDay) * MinPerDay + tod


\* ------------------------------------------------------------------------
\* Data model
\* ------------------------------------------------------------------------

\* PayrollSetting.objects.first() when the table is empty (None): every
\* getattr(company, name, default) then yields the default
NoSetting ==
    [present |-> FALSE, closing_day |-> 0, special_rate |-> 0,
     employment_ins_rate |-> 0, lunch_break_from |-> 0, lunch_break_to |-> 0,
     weekly_holidays |-> {}, new_year_from |-> 0, new_year_to |-> 0,
     bon_from |-> 0, bon_to |-> 0, gw_from |-> 0, gw_to |-> 0]

\* a DateField holding NULL (None is falsy, every date is truthy)
NoDate == 0

\* staff.payroll_info when the staff has no PayrollInfo row
NoInfo ==
    [present |-> FALSE, deduct_method |-> "no_deduct",
     employment_insured |-> FALSE, resident_tax |-> 0, withholding_tax |-> 0,
     health_insurance |-> 0, pension |-> 0, commute_allowance |-> 0]

\* AttendanceLog.Action
CHECK_IN == "in"

CHECK_OUT == "out"

\* MonthlyPayroll row as created with the field defaults only
DefaultRow ==
    [total_hours |-> 0, normal_hours |-> 0, special_hours |-> 0,
     holiday_hours |-> 0, gross_pay |-> 0, commute_allowance |-> 0,
     employment_insurance |-> 0, resident_tax |-> 0, withholding_tax |-> 0,
     health_insurance |-> 0, pension |-> 0]

\* MonthlyPayroll.social_insurance
social_insurance(r) == r.health_insurance + r.pension

\* MonthlyPayroll.net_pay
net_pay(r) ==
    r.gross_pay - (r.commute_allowance + r.employment_insurance
                   + r.resident_tax + r.withholding_tax + social_insurance(r))

\* ------------------------------------------------------------------------
\* Rounding policy (services.py)
\* ------------------------------------------------------------------------

\* _yen_floor(n / d): quantize to whole yen, ROUND_DOWN (n >= 0)
_yen_floor(n, d) == n \div d

\* _hours(td): hours with 4 decimals, in units of 0.0001 h (td in minutes)
_hours(td) == IF td = 0 THEN 0 ELSE RoundHalfEven(td * 500, 3)

\* _round_qtr(hours): the number of quarter hours, half up
_round_qtr(h4) == RoundHalfUp(h4 * 4, 10000)

\* timedelta(hours=float(quarter-rounded hours)), in minutes
QuartersToMinutes(q) == q * 15

\* ------------------------------------------------------------------------
\* Period Resolver
\* ------------------------------------------------------------------------

Digits == {"0", "1", "2", "3", "4", "5", "6", "7", "8", "9"}

DigitVal(c) ==
    CASE c = "0" -> 0 [] c = "1" -> 1 [] c = "2" -> 2 [] c = "3" -> 3
      [] c = "4" -> 4 [] c = "5" -> 5 [] c = "6" -> 6 [] c = "7" -> 7
      [] c = "8" -> 8 [] c = "9" -> 9

RECURSIVE IntOf(_)
IntOf(cs) ==
    IF cs = << >> THEN 0
    ELSE IntOf(SubSeq(cs, 1, Len(cs) - 1)) * 10 + DigitVal(cs[Len(cs)])

ParseAnyLength(ym) ==
    IF \E i \in 1..Len(ym) : ym[i] \notin Digits
    THEN [err |-> TRUE, year |-> 0, month |-> 0]
    ELSE [err |-> FALSE, year |-> IntOf(SubSeq(ym, 1, Min2(4, Len(ym)))),
          month |-> IntOf(SubSeq(ym, 5, Len(ym)))]

\* _parse_ym: a year-month is a sequence of characters
_parse_ym(ym) ==
    IF Len(ym) # 6 \/ \E i \in 1..Len(ym) : ym[i] \notin Digits
    THEN [err |-> TRUE, year |-> 0, month |-> 0]
    ELSE [err |-> FALSE, year |-> IntOf(SubSeq(ym, 1, 4)),
          month |-> IntOf(SubSeq(ym, 5, 6))]

\* _closing_day: the closing_day column is an integer; None only when
\* there is no setting row
_closing_day(company) ==
    IF ~company.present THEN 31
    ELSE Min2(Max2(company.closing_day, 1), 31)

PeriodError == [err |-> TRUE, start |-> 0, end |-> 0]

\* the first branch of _resolve_period: the calendar month
CalendarMonthPeriod(year, month) ==
    IF ~ValidDate(year, month, 1) THEN PeriodError
    ELSE IF month = 12
    THEN IF ~ValidDate(year + 1, 1, 1) THEN PeriodError
         ELSE [err |-> FALSE, start |-> MkDateTime(year, month, 1),
               end |-> MkDateTime(year + 1, 1, 1)]
    ELSE [err |-> FALSE, start |-> MkDateTime(year, month, 1),
          end |-> MkDateTime(year, month + 1, 1)]

\* the second branch of _resolve_period: day after the previous closing
\* day up to and including this month's closing day
ClosingDayPeriod(year, month, day) ==
    LET prev_month == IF month = 1 THEN 12 ELSE month - 1
        prev_year == IF month = 1 THEN year - 1 ELSE year
    IN  IF ~ValidDate(prev_year, prev_month, day + 1)
           \/ ~ValidDate(year, month, day + 1)
        THEN PeriodError
        ELSE [err |-> FALSE,
              start |-> MkDateTime(prev_year, prev_month, day + 1),
              end |-> MkDateTime(year, month, day + 1)]

ClosingDayAbove28(day) == day > 28

UsesCalendarMonth(day) == day >= 28

_resolve_period(year, month, company) ==
    LET day == _closing_day(company)
    IN  IF UsesCalendarMonth(day) THEN CalendarMonthPeriod(year, month)
        ELSE ClosingDayPeriod(year, month, day)

\* resolve_payroll_period(ym): parse, read the setting, resolve
resolve_payroll_period(ym, company) ==
    LET p == _parse_ym(ym)
    IN  IF p.err THEN PeriodError
        ELSE _resolve_period(p.year, p.month, company)


\* ------------------------------------------------------------------------
\* Weekly holidays and special periods
\* ------------------------------------------------------------------------

\* _weekly_holidays: the JSON list of weekday numbers as a set
_weekly_holidays(company) ==
    IF ~company.present THEN {} ELSE company.weekly_holidays

\* the (start, end) attribute pairs _collect_special_ranges reads from the
\* setting row
NamedRanges(company) ==
    {<<company.new_year_from, company.new_year_to>>,
     <<company.bon_from, company.bon_to>>}

\* _collect_special_ranges: SpecialPeriod rows overlapping the period plus
\* the setting's named ranges whose two dates are set
_collect_special_ranges(first_day, last_day, company, periods) ==
    {<<sp.start, sp.end>> : sp \in {x \in periods :
                                      x.start <= last_day /\ x.end >= first_day}}
    \cup (IF ~company.present THEN {}
          ELSE {r \in NamedRanges(company) : r[1] # NoDate /\ r[2] # NoDate})

\* ------------------------------------------------------------------------
\* Duration Aggregator
\* ------------------------------------------------------------------------

\* a window that is closed at its end
LogsThroughEnd(allLogs, staff, start, end) ==
    {lg \in allLogs : lg.staff = staff /\ lg.timestamp >= start
                      /\ lg.timestamp <= end}

\* a window without its lower end
LogsBeforeEnd(allLogs, staff, start, end) ==
    {lg \in allLogs : lg.staff = staff /\ lg.timestamp < end}

\* AttendanceLog rows of a staff with start <= timestamp < end
LogsIn(allLogs, staff, start, end) ==
    {lg \in allLogs : lg.staff = staff /\ lg.timestamp >= start
                      /\ lg.timestamp < end}

\* .order_by("timestamp"): ascending (timestamps of one staff are distinct)
RECURSIVE OrderByTimestamp(_)
OrderByTimestamp(S) ==
    IF S = {} THEN << >>
    ELSE LET first == CHOOSE lg \in S : \A o \in S : lg.timestamp <= o.timestamp
         IN  <<first>> \o OrderByTimestamp(S \ {first})

\* no pending check-in (cin = None)
NoCin == -1

\* the loop of _iter_inout_pairs over the ordered rows, cin pending
RECURSIVE PairWalk(_, _)
PairWalk(qs, cin) ==
    IF qs = << >> THEN << >>
    ELSE LET lg == Head(qs)
         IN  IF lg.action = CHECK_IN
             THEN PairWalk(Tail(qs), lg.timestamp)
             ELSE IF lg.action = CHECK_OUT /\ cin # NoCin
             THEN <<[cin |-> cin, cout |-> lg.timestamp]>>
                  \o PairWalk(Tail(qs), NoCin)
             ELSE PairWalk(Tail(qs), cin)

_iter_inout_pairs(allLogs, staff, start, end) ==
    PairWalk(OrderByTimestamp(LogsIn(allLogs, staff, start, end)), NoCin)

\* the category of a shift: by the check-in's civil date
ShiftKind(pr, special_ranges, w_holidays) ==
    LET day == DateOf(pr.cin)
    IN  IF \E r \in special_ranges : r[1] <= day /\ day <= r[2] THEN "special"
        ELSE IF Weekday(day) \in w_holidays THEN "holiday"
        ELSE "normal"

\* the whole break taken off every shift that touches it
ShiftDurationWholeBreak(pr, company) ==
    LET lunch_start_time == IF company.present THEN company.lunch_break_from
                            ELSE 12 * 60
        lunch_end_time == IF company.present THEN company.lunch_break_to
                          ELSE 13 * 60
        lunch_start == AtTimeOfDay(pr.cin, lunch_start_time)
        lunch_end == AtTimeOfDay(pr.cin, lunch_end_time)
        dur == pr.cout - pr.cin
        cut == IF Min2(pr.cout, lunch_end) > Max2(pr.cin, lunch_start)
               THEN dur - (lunch_end - lunch_start) ELSE dur
    IN  IF cut < 0 THEN 0 ELSE cut

\* the break-adjusted duration of a shift
ShiftDuration(pr, company) ==
    LET lunch_start_time == IF company.present THEN company.lunch_break_from
                            ELSE 12 * 60
        lunch_end_time == IF company.present THEN company.lunch_break_to
                          ELSE 13 * 60
        lunch_start == AtTimeOfDay(pr.cin, lunch_start_time)
        lunch_end == AtTimeOfDay(pr.cin, lunch_end_time)
        dur == pr.cout - pr.cin
        overlap_start == Max2(pr.cin, lunch_start)
        overlap_end == Min2(pr.cout, lunch_end)
        cut == IF overlap_end > overlap_start
               THEN dur - (overlap_end - overlap_start) ELSE dur
    IN  IF cut < 0 THEN 0 ELSE cut

\* daily[day][kind] after the loop over the pairs (_add skips td <= 0)
RECURSIVE DayBucket(_, _, _, _, _, _)
DayBucket(pairs, day, kind, company, special_ranges, w_holidays) ==
    IF pairs = << >> THEN 0
    ELSE LET pr == Head(pairs)
             rest == DayBucket(Tail(pairs), day, kind, company,
                               special_ranges, w_holidays)
         IN  IF DateOf(pr.cin) = day
                /\ ShiftKind(pr, special_ranges, w_holidays) = kind
             THEN ShiftDuration(pr, company) + rest
             ELSE rest

\* the keys of daily: the days that got a positive duration
DailyKeys(pairs, company) ==
    {DateOf(pairs[i].cin) : i \in {j \in 1..Len(pairs) :
                                     ShiftDuration(pairs[j], company) > 0}}

\* minutes(15)
FlatMinutes == 15

\* the same deduction drawn holiday -> special -> normal
FlatDeductHolidayFirst(b) ==
    LET take_h == Min2(b.holiday, FlatMinutes)
        rem_h == FlatMinutes - take_h
        take_s == IF rem_h <= 0 THEN 0 ELSE Min2(b.special, rem_h)
        rem_s == rem_h - take_s
        take_n == IF rem_s <= 0 THEN 0 ELSE Min2(b.normal, rem_s)
    IN  [normal |-> b.normal - take_n, special |-> b.special - take_s,
         holiday |-> b.holiday - take_h]

\* fifteen minutes off the normal bucket whatever it holds
FlatDeductUnclamped(b) ==
    [normal |-> b.normal - FlatMinutes, special |-> b.special,
     holiday |-> b.holiday]

\* the flat deduction on one day's buckets, normal -> special -> holiday
FlatDeduct(b) ==
    LET take_n == Min2(b.normal, FlatMinutes)
        rem_n == FlatMinutes - take_n
        take_s == IF rem_n <= 0 THEN 0 ELSE Min2(b.special, rem_n)
        rem_s == rem_n - take_s
        take_h == IF rem_s <= 0 THEN 0 ELSE Min2(b.holiday, rem_s)
    IN  [normal |-> b.normal - take_n, special |-> b.special - take_s,
         holiday |-> b.holiday - take_h]

RECURSIVE SumOver(_, _, _)
SumOver(days, f, kind) ==
    IF days = {} THEN 0
    ELSE LET d == CHOOSE x \in days : TRUE
         IN  f[d][kind] + SumOver(days \ {d}, f, kind)

\* the totals of the day buckets with the flat deduction left out
AggregateBeforeFlat(allLogs, periods, staff, start, end, company) ==
    LET period_start_date == DateOf(start)
        period_end_date ==
            IF end <= start THEN period_start_date
            ELSE Max2(DateOf(end - MinPerDay), period_start_date)
        special_ranges == _collect_special_ranges(period_start_date,
                              period_end_date, company, periods)
        w_holidays == _weekly_holidays(company)
        pairs == _iter_inout_pairs(allLogs, staff, start, end)
        days == DailyKeys(pairs, company)
        daily == [d \in days |->
                    [k \in {"normal", "special", "holiday"} |->
                        DayBucket(pairs, d, k, company, special_ranges,
                                  w_holidays)]]
    IN  [normal |-> SumOver(days, daily, "normal"),
         special |-> SumOver(days, daily, "special"),
         holiday |-> SumOver(days, daily, "holiday")]

\* _aggregate_durations: WorkDurations(normal, special, holiday), minutes
_aggregate_durations(allLogs, periods, staff, start, end, company) ==
    LET period_start_date == DateOf(start)
        period_end_date ==
            IF end <= start THEN period_start_date
            ELSE Max2(DateOf(end - MinPerDay), period_start_date)
        special_ranges == _collect_special_ranges(period_start_date,
                              period_end_date, company, periods)
        w_holidays == _weekly_holidays(company)
        pairs == _iter_inout_pairs(allLogs, staff, start, end)
        days == DailyKeys(pairs, company)
        daily == [d \in days |->
                    FlatDeduct([k \in {"normal", "special", "holiday"} |->
                        DayBucket(pairs, d, k, company, special_ranges,
                                  w_holidays)])]
    IN  [normal |-> SumOver(days, daily, "normal"),
         special |-> SumOver(days, daily, "special"),
         holiday |-> SumOver(days, daily, "holiday")]


\* ------------------------------------------------------------------------
\* Fixed-salary deduction methods (payroll_calculation.py)
\* ------------------------------------------------------------------------

\* DeductMethod.CHOICES
DeductMethods ==
    {"calendar", "fixed30", "working", "working_hour", "hourly_avg",
     "weekly", "nowork", "no_deduct"}

\* _weekdays_in_month: Monday..Friday days of the month
_weekdays_in_month(y, m) ==
    Cardinality({d \in 1..DaysInMonth(y, m) : Weekday(MkDate(y, m, d)) < 5})

\* an amount n / d of yen; Decimal's 28-digit division is taken as exact
Ratio(n, d) == [err |-> FALSE, n |-> n, d |-> d]

RatioError == [err |-> TRUE, n |-> 0, d |-> 1]

\* daily_or_hourly_unit: salary / denominator.  calendar_days and
\* working_days are 0 for None; tdate = <<year, month>> of target_date
daily_or_hourly_unit(salary, method, tdate, calendar_days, working_days) ==
    LET cal == IF calendar_days # 0 THEN calendar_days
               ELSE DaysInMonth(tdate[1], tdate[2])
        wdays == IF working_days # 0 THEN working_days
                 ELSE _weekdays_in_month(tdate[1], tdate[2])
        whours == wdays * 8
    IN  CASE method = "calendar" -> Ratio(salary, cal)
          [] method = "fixed30" -> Ratio(salary, 30)
          [] method = "working" -> Ratio(salary, wdays)
          [] method = "working_hour" -> Ratio(salary, whours)
          [] method = "hourly_avg" -> Ratio(salary * 10, 1738)
          [] method = "weekly" -> Ratio(salary * 100, 2165)
          [] method \in {"nowork", "no_deduct"} -> Ratio(salary, cal)
          [] OTHER -> RatioError

\* fixed_salary_pay.  worked_hours is in minutes (the caller passes hours
\* as a float); todayYM = <<year, month>> of date.today()
fixed_salary_pay(salary, method, worked_days, worked_hours, calendar_days, working_days, tdate, todayYM) ==
    LET unit == daily_or_hourly_unit(salary, method, tdate, calendar_days,
                                     working_days)
    IN  IF unit.err THEN RatioError
        ELSE CASE method \in {"calendar", "fixed30", "working", "weekly"} ->
                    Ratio(unit.n * worked_days, unit.d)
               [] method \in {"working_hour", "hourly_avg"} ->
                    Ratio(unit.n * worked_hours, unit.d * 60)
               [] method = "nowork" ->
                    LET cal_days == IF calendar_days # 0 THEN calendar_days
                                    ELSE DaysInMonth(todayYM[1], todayYM[2])
                        absent_days == cal_days - worked_days
                    IN  Ratio(salary * unit.d - unit.n * absent_days, unit.d)
               [] method = "no_deduct" -> Ratio(salary, 1)
               [] OTHER -> RatioError

\* ------------------------------------------------------------------------
\* Pay Calculator of build_monthly_payroll
\* ------------------------------------------------------------------------

\* the hourly branch: base pay from the hourly rate and the rounded total
HourlyBase(hr, total_q) == _yen_floor(hr * total_q, 4)

\* the salaried branch: base pay from the monthly salary
SalaryBase(monthly_salary) == _yen_floor(monthly_salary, 1)

\* employment insurance of build_monthly_payroll
BuildEmploymentIns(info, company, gross) ==
    IF info.present /\ info.employment_insured /\ company.present
    THEN _yen_floor(gross * company.employment_ins_rate, 1000000)
    ELSE 0

\* the local normal_hours of build_monthly_payroll, in quarter hours
BuildNormalQ(durs) == _round_qtr(_hours(durs.normal))

\* the defaults dict handed to update_or_create
BuildDefaults(staffRec, company, durs, include_commute_in_gross) ==
    LET special_q == _round_qtr(_hours(durs.special))
        holiday_q == _round_qtr(_hours(durs.holiday))
        total_q == _round_qtr(_hours(durs.normal + durs.special
                                     + durs.holiday))
        base_i == IF staffRec.wage_type = "hourly"
                  THEN HourlyBase(staffRec.hourly_rate, total_q)
                  ELSE SalaryBase(staffRec.monthly_salary)
        info == staffRec.payroll_info
        commute_i == info.commute_allowance
        gross == base_i + (IF include_commute_in_gross THEN commute_i ELSE 0)
    IN  [total_hours |-> QuartersToMinutes(total_q),
         special_hours |-> QuartersToMinutes(special_q),
         holiday_hours |-> QuartersToMinutes(holiday_q),
         gross_pay |-> gross,
         commute_allowance |-> commute_i,
         employment_insurance |-> BuildEmploymentIns(info, company, gross),
         resident_tax |-> info.resident_tax,
         withholding_tax |-> info.withholding_tax,
         health_insurance |-> info.health_insurance,
         pension |-> info.pension]

AccumulateDefaults(row, defaults) ==
    [f \in DOMAIN row |->
        IF f \in DOMAIN defaults THEN row[f] + defaults[f] ELSE row[f]]

\* for k, v in defaults: setattr(obj, k, v)
SetDefaults(row, defaults) ==
    [f \in DOMAIN row |-> IF f \in DOMAIN defaults THEN defaults[f] ELSE row[f]]


\* ------------------------------------------------------------------------
\* State
\* ------------------------------------------------------------------------

VARIABLES
    settings,       \* PayrollSetting table, in primary-key order
    specialPeriods, \* SpecialPeriod table
    staff,          \* Staff table with each staff's PayrollInfo
    logs,           \* AttendanceLog table
    today,          \* timezone.localdate() / date.today(): <<year, month, day>>
    rows,           \* MonthlyPayroll table: key -> committed rows of the key
    pc,             \* control point of each process
    web,            \* locals of the request thread in build_monthly_payroll
    batch,          \* locals of generate_monthly_payroll
    cron,           \* locals of payroll_recalc_daily's handle
    period,         \* the last resolve_payroll_period call and its result
    writer,         \* history: which operation wrote the key's row last
    current,        \* history: the row's computation read the inputs as they are now
    idem,           \* history: outcome of the last repeated build of the key
    edits,          \* number of input changes made so far
    call,           \* the last direct call of a function of the engine
    punches,        \* AttendanceLog rows as the punch views store them
    cancels,        \* CancelLog table
    req,            \* locals and session of each request thread
    now,            \* timezone.now(), in seconds
    created,        \* AttendanceLog ids handed out so far
    cancelled,      \* history: number of successful cancel_last requests
    cache           \* lru_cache of _company_setting in the view process

\* the state of the punch views
punchVars == <<punches, cancels, req, now, created, cancelled>>

vars == <<settings, specialPeriods, staff, logs, today, rows, pc, web, batch,
          cron, period, writer, current, idem, edits, call, punchVars, cache>>

\* ------------------------------------------------------------------------
\* The explored inputs
\* ------------------------------------------------------------------------

\* input changes (punches, profile edits, setting saves) explored per run
MaxEdits == 2

Staffs == {"s1", "s2"}

\* Staff.objects.all() in primary-key order
AllStaff == <<"s1", "s2">>

YM202501 == <<"2", "0", "2", "5", "0", "1">>

YMs == {YM202501}

Keys == Staffs \X YMs

Procs == {"web", "batch", "cron"}

D(y, m, d) == MkDate(y, m, d)

\* datetime(y, m, d, hh, mm) in local time
T(y, m, d, hh, mm) == MkDateTime(y, m, d) + hh * 60 + mm

\* the setting row as first saved: calendar-month periods, Sunday weekly
\* holiday, New Year range 1-3 January 2025
SettingA ==
    [present |-> TRUE, closing_day |-> 31, special_rate |-> 135,
     employment_ins_rate |-> 6000, lunch_break_from |-> 12 * 60,
     lunch_break_to |-> 13 * 60, weekly_holidays |-> {6},
     new_year_from |-> D(2025, 1, 1), new_year_to |-> D(2025, 1, 3),
     bon_from |-> NoDate, bon_to |-> NoDate,
     gw_from |-> NoDate, gw_to |-> NoDate]

\* the same with closing day 25
SettingB == [SettingA EXCEPT !.closing_day = 25]

SettingChoices == {SettingA, SettingB}

\* PayrollInfo as PayrollInfo.objects.get_or_create(staff=staff) makes it
InfoDefault ==
    [present |-> TRUE, deduct_method |-> "no_deduct",
     employment_insured |-> FALSE, resident_tax |-> 0, withholding_tax |-> 0,
     health_insurance |-> 0, pension |-> 0, commute_allowance |-> 0]

\* a filled-in profile: insured, every deduction set, calendar-day method
InfoFull ==
    [present |-> TRUE, deduct_method |-> "calendar",
     employment_insured |-> TRUE, resident_tax |-> 100, withholding_tax |-> 200,
     health_insurance |-> 300, pension |-> 400, commute_allowance |-> 500]

InfoChoices == {InfoDefault, InfoFull}

StaffInit ==
    [s \in Staffs |->
        IF s = "s1"
        THEN [wage_type |-> "hourly", hourly_rate |-> 1000,
              monthly_salary |-> 0, payroll_info |-> InfoFull]
        ELSE [wage_type |-> "salary", hourly_rate |-> 0,
              monthly_salary |-> 200000, payroll_info |-> InfoFull]]

Log(s, a, ts) == [staff |-> s, action |-> a, timestamp |-> ts]

\* punches already stored: s1 worked 10:00-11:07 on Thursday 2 January
\* (inside the New Year range) and checked in on Monday 6 January;
\* s2 worked 09:00-18:00 on Monday 6 January
LogsInit ==
    {Log("s1", CHECK_IN, T(2025, 1, 2, 10, 0)),
     Log("s1", CHECK_OUT, T(2025, 1, 2, 11, 7)),
     Log("s1", CHECK_IN, T(2025, 1, 6, 9, 0)),
     Log("s2", CHECK_IN, T(2025, 1, 6, 9, 0)),
     Log("s2", CHECK_OUT, T(2025, 1, 6, 18, 0))}

\* punches that may arrive
LogPool ==
    {Log("s1", CHECK_OUT, T(2025, 1, 6, 18, 0)),
     Log("s2", CHECK_IN, T(2025, 1, 27, 9, 0)),
     Log("s2", CHECK_OUT, T(2025, 1, 27, 12, 30))}

\* ------------------------------------------------------------------------
\* Reading the tables
\* ------------------------------------------------------------------------

\* no function of the engine has been called directly
NoCall == [fn |-> "none"]

\* resolve_payroll_period has not been called
NoPeriodCall ==
    [called |-> FALSE, year |-> 0, month |-> 0,
     result |-> [err |-> FALSE, start |-> 0, end |-> 0]]

\* PayrollSetting.objects.first()
FirstSetting(tbl) == IF tbl = << >> THEN NoSetting ELSE Head(tbl)

Key(s, ym) == <<s, ym>>

NoUniqueIndex(rs, k) == FALSE

\* the unique_together (staff, year_month) index rejects an insert
UniqueViolation(rs, k) == Len(rs[k]) > 0

Autocommit(p) == FALSE

\* generate_monthly_payroll runs its loop inside transaction.atomic()
InTransaction(p) == p = "batch"

\* a key whose row the open transaction of the batch has written: other
\* writers of the key wait for the transaction to end
Locked(k) == batch.pending[k].op # "none"

\* include_commute_in_gross: every caller leaves the default
IncludeCommute == TRUE

\* build_monthly_payroll up to the update_or_create call
BuildCompute(staffTbl, s, company, per) ==
    BuildDefaults(staffTbl[s], company,
        _aggregate_durations(logs, specialPeriods, s, per.start, per.end,
                             company),
        IncludeCommute)

ZeroDefaults == [f \in DOMAIN DefaultRow \ {"normal_hours"} |-> 0]

WebIdle ==
    [staff |-> "s1", ym |-> YM202501, defaults |-> ZeroDefaults,
     stale |-> FALSE]

NoPending == [op |-> "none", row |-> DefaultRow, stale |-> FALSE]

BatchIdle ==
    [ym |-> YM202501, company |-> NoSetting,
     per |-> [err |-> FALSE, start |-> 0, end |-> 0],
     todo |-> << >>, defaults |-> ZeroDefaults, stale |-> FALSE,
     pending |-> [k \in Keys |-> NoPending], nDone |-> 0]

CronIdle ==
    [ym |-> YM202501, setting |-> NoSetting, todo |-> << >>,
     durs |-> [normal |-> 0, special |-> 0, holiday |-> 0],
     worked_days |-> 0, obj |-> DefaultRow, stale |-> FALSE]

\* request threads of the punch views and of the configuration views
Reqs == {"r1", "r2"}

\* no staff id in the session / no idempotency key in the request
NoStaff == "none"

NoKey == "none"

\* a thread between requests; obj is the pk of the setting row a
\* configuration view fetched (0 for None)
ReqIdle ==
    [pc |-> "idle", staff |-> NoStaff, action |-> CHECK_IN,
     key |-> NoKey, session |-> NoStaff, obj |-> 0, form |-> NoSetting]

\* _company_setting has not been called since the process started or since
\* cache_clear()
NoCache == [filled |-> FALSE, value |-> NoSetting]

\* nothing punched, nobody in a request, an empty cache
NoAttendance ==
    /\ punches = {}
    /\ cancels = {}
    /\ req = [r \in Reqs |-> ReqIdle]
    /\ now = 0
    /\ created = 0
    /\ cancelled = 0
    /\ cache = NoCache

Init ==
    /\ settings = <<SettingA>>
    /\ specialPeriods = {}
    /\ staff = StaffInit
    /\ logs = LogsInit
    /\ today = <<2025, 1, 20>>
    /\ rows = [k \in Keys |-> << >>]
    /\ pc = [p \in Procs |-> "idle"]
    /\ web = WebIdle
    /\ batch = BatchIdle
    /\ cron = CronIdle
    /\ period = NoPeriodCall
    /\ writer = [k \in Keys |-> "none"]
    /\ current = [k \in Keys |-> FALSE]
    /\ idem = [k \in Keys |-> "none"]
    /\ edits = 0
    /\ call = NoCall
    /\ NoAttendance


\* ------------------------------------------------------------------------
\* History bookkeeping
\* ------------------------------------------------------------------------

\* an input of the computations changed: what was computed before is stale
MarkStale(pcs, w, b, c) ==
    /\ current' = [k \in Keys |-> FALSE]
    /\ web' = IF pcs["web"] = "idle" THEN w ELSE [w EXCEPT !.stale = TRUE]
    /\ batch' = IF pcs["batch"] = "idle" THEN b
                ELSE [b EXCEPT !.stale = TRUE,
                               !.pending = [k \in Keys |->
                                   IF @[k].op = "none" THEN @[k]
                                   ELSE [@[k] EXCEPT !.stale = TRUE]]]
    /\ cron' = IF pcs["cron"] = "idle" THEN c ELSE [c EXCEPT !.stale = TRUE]

\* the rows of the keys K were committed by build_monthly_payroll:
\* written[k] is the row stored, stale[k] whether its inputs have changed
BuildWrote(K, newRows, written, stale) ==
    /\ writer' = [k \in Keys |-> IF k \in K THEN "build" ELSE writer[k]]
    /\ current' = [k \in Keys |-> IF k \in K THEN ~stale[k] ELSE current[k]]
    /\ idem' = [k \in Keys |->
                  IF k \notin K THEN idem[k]
                  ELSE IF ~stale[k] /\ current[k] /\ writer[k] = "build"
                  THEN (IF newRows[k] = rows[k] THEN "same" ELSE "diff")
                  ELSE "none"]

\* the row of key k was committed by payroll_recalc_daily: by its
\* get_or_create ("default") or by its save ("recalc")
CronWrote(k, what, written, stale) ==
    /\ writer' = [writer EXCEPT ![k] = what]
    /\ current' = [current EXCEPT ![k] = (what = "recalc") /\ ~stale]
    /\ idem' = [idem EXCEPT ![k] = "none"]

\* UPDATE of the fetched row / INSERT of a new row
StoreUpdate(rs, k, r) == [rs EXCEPT ![k] = <<r>> \o Tail(@)]

StoreInsert(rs, k, r) == [rs EXCEPT ![k] = Append(@, r)]

\* ------------------------------------------------------------------------
\* Input changes
\* ------------------------------------------------------------------------

\* _create_punch: a punch is stored
AddLog(lg) ==
    /\ edits < MaxEdits
    /\ lg \notin logs
    /\ logs' = logs \cup {lg}
    /\ edits' = edits + 1
    /\ MarkStale(pc, web, batch, cron)
    /\ UNCHANGED <<settings, specialPeriods, staff, today, rows, pc, period,
                   writer, idem,
                   call,
                   punchVars, cache>>

\* PayrollConfigView.form_valid: the cache of _company_setting is cleared
\* and the setting row is saved
SaveSetting(new) ==
    /\ edits < MaxEdits
    /\ settings # << >>
    /\ new # Head(settings)
    /\ settings' = <<new>> \o Tail(settings)
    /\ cache' = NoCache
    /\ edits' = edits + 1
    /\ MarkStale(pc, web, batch, cron)
    /\ UNCHANGED <<specialPeriods, staff, logs, today, rows, pc, period,
                   writer, idem,
                   call,
                   punchVars>>

\* ------------------------------------------------------------------------
\* build_monthly_payroll called from a view (one request thread)
\* ------------------------------------------------------------------------

\* compute_staff_snapshot and the other views: build_monthly_payroll(s, ym)
WebBuild(s, ym) ==
    LET p == _parse_ym(ym)
        company == FirstSetting(settings)
        per == _resolve_period(p.year, p.month, company)
    IN  /\ pc["web"] = "idle"
        /\ ~p.err /\ ~per.err
        /\ web' = [staff |-> s, ym |-> ym, stale |-> FALSE,
                   defaults |-> BuildCompute(staff, s, company, per)]
        /\ pc' = [pc EXCEPT !["web"] = "get"]
        /\ UNCHANGED <<settings, specialPeriods, staff, logs, today, rows,
                       batch, cron, period, writer, current, idem, edits,
                   call,
                   punchVars, cache>>

\* StaffEditView.post: save the profile forms, then rebuild the month
WebStaffEdit(s, info, ym) ==
    LET p == _parse_ym(ym)
        company == FirstSetting(settings)
        per == _resolve_period(p.year, p.month, company)
        staffNew == [staff EXCEPT ![s].payroll_info = info]
    IN  /\ pc["web"] = "idle"
        /\ edits < MaxEdits
        /\ info # staff[s].payroll_info
        /\ ~p.err /\ ~per.err
        /\ staff' = staffNew
        /\ edits' = edits + 1
        /\ MarkStale(pc, [staff |-> s, ym |-> ym, stale |-> FALSE,
                          defaults |-> BuildCompute(staffNew, s, company, per)],
                     batch, cron)
        /\ pc' = [pc EXCEPT !["web"] = "get"]
        /\ UNCHANGED <<settings, specialPeriods, logs, today, rows, period,
                       writer, idem,
                   call,
                   punchVars, cache>>

\* update_or_create: select_for_update().get(); a found row is updated
\* with the defaults and committed, a missing one is created next
WebGet ==
    LET k == Key(web.staff, web.ym)
    IN  /\ pc["web"] \in {"get", "reget"}
        /\ IF Len(rows[k]) > 0
           THEN /\ ~Locked(k)
                /\ rows' = StoreUpdate(rows, k,
                               SetDefaults(Head(rows[k]), web.defaults))
                /\ BuildWrote({k}, rows', [x \in {k} |-> Head(rows'[k])],
                              [x \in {k} |-> web.stale])
                /\ pc' = [pc EXCEPT !["web"] = "idle"]
                /\ web' = WebIdle
                /\ batch' = batch
           ELSE /\ pc["web"] = "get"
                /\ pc' = [pc EXCEPT !["web"] = "create"]
                /\ UNCHANGED <<rows, web, batch, writer, current, idem,
                   call,
                   punchVars, cache>>
        /\ UNCHANGED <<settings, specialPeriods, staff, logs, today, cron,
                       period, edits,
                   call,
                   punchVars, cache>>

\* update_or_create: create(**params); IntegrityError falls back to get
WebCreate ==
    LET k == Key(web.staff, web.ym)
    IN  /\ pc["web"] = "create"
        /\ ~Locked(k)
        /\ IF UniqueViolation(rows, k)
           THEN /\ pc' = [pc EXCEPT !["web"] = "reget"]
                /\ UNCHANGED <<rows, web, batch, writer, current, idem,
                   call,
                   punchVars, cache>>
           ELSE /\ rows' = StoreInsert(rows, k,
                               SetDefaults(DefaultRow, web.defaults))
                /\ BuildWrote({k}, rows',
                              [x \in {k} |->
                                  SetDefaults(DefaultRow, web.defaults)],
                              [x \in {k} |-> web.stale])
                /\ pc' = [pc EXCEPT !["web"] = "idle"]
                /\ web' = WebIdle
                /\ batch' = batch
        /\ UNCHANGED <<settings, specialPeriods, staff, logs, today, cron,
                       period, edits,
                   call,
                   punchVars, cache>>


\* ------------------------------------------------------------------------
\* generate_monthly_payroll (management command / scheduled task)
\* ------------------------------------------------------------------------

\* parse, read the setting once, resolve the period once, staffs = all
BatchCall(ym) ==
    LET p == _parse_ym(ym)
        company == FirstSetting(settings)
        per == _resolve_period(p.year, p.month, company)
    IN  /\ pc["batch"] = "idle"
        /\ ~p.err /\ ~per.err
        /\ batch' = [BatchIdle EXCEPT !.ym = ym, !.company = company,
                                      !.per = per, !.todo = AllStaff]
        /\ pc' = [pc EXCEPT !["batch"] = "loop"]
        /\ UNCHANGED <<settings, specialPeriods, staff, logs, today, rows,
                       web, cron, period, writer, current, idem, edits,
                   call,
                   punchVars, cache>>

\* the loop body up to update_or_create, for the next staff
BatchCompute ==
    /\ pc["batch"] = "loop"
    /\ batch.todo # << >>
    /\ batch' = [batch EXCEPT
                   !.defaults = BuildCompute(staff, Head(batch.todo),
                                             batch.company, batch.per),
                   !.stale = (batch.company # FirstSetting(settings))]
    /\ pc' = [pc EXCEPT !["batch"] = "get"]
    /\ UNCHANGED <<settings, specialPeriods, staff, logs, today, rows, web,
                   cron, period, writer, current, idem, edits,
                   call,
                   punchVars, cache>>

\* the write of the batch for key k: held back in the open transaction,
\* or committed at once where no transaction is open
BatchWrite(k, op, r) ==
    IF InTransaction("batch")
    THEN /\ batch' = [batch EXCEPT
                        !.pending[k] = [op |-> op, row |-> r,
                                        stale |-> batch.stale],
                        !.todo = Tail(@), !.nDone = @ + 1]
         /\ UNCHANGED <<rows, writer, current, idem,
                   call,
                   punchVars, cache>>
    ELSE /\ rows' = IF op = "insert" THEN StoreInsert(rows, k, r)
                    ELSE StoreUpdate(rows, k, r)
         /\ BuildWrote({k}, rows', [x \in {k} |-> r],
                       [x \in {k} |-> batch.stale])
         /\ batch' = [batch EXCEPT !.todo = Tail(@), !.nDone = @ + 1]

BatchGet ==
    LET k == Key(Head(batch.todo), batch.ym)
    IN  /\ pc["batch"] \in {"get", "reget"}
        /\ IF Len(rows[k]) > 0
           THEN /\ BatchWrite(k, "update",
                              SetDefaults(Head(rows[k]), batch.defaults))
                /\ pc' = [pc EXCEPT !["batch"] = "loop"]
           ELSE /\ pc["batch"] = "get"
                /\ pc' = [pc EXCEPT !["batch"] = "create"]
                /\ UNCHANGED <<rows, batch, writer, current, idem,
                   call,
                   punchVars, cache>>
        /\ UNCHANGED <<settings, specialPeriods, staff, logs, today, web,
                       cron, period, edits,
                   call,
                   punchVars, cache>>

BatchCreate ==
    LET k == Key(Head(batch.todo), batch.ym)
    IN  /\ pc["batch"] = "create"
        /\ IF UniqueViolation(rows, k)
           THEN /\ pc' = [pc EXCEPT !["batch"] = "reget"]
                /\ UNCHANGED <<rows, batch, writer, current, idem,
                   call,
                   punchVars, cache>>
           ELSE /\ BatchWrite(k, "insert",
                              SetDefaults(DefaultRow, batch.defaults))
                /\ pc' = [pc EXCEPT !["batch"] = "loop"]
        /\ UNCHANGED <<settings, specialPeriods, staff, logs, today, web,
                       cron, period, edits,
                   call,
                   punchVars, cache>>

\* rows after the transaction's held-back writes are applied
ApplyPending(rs, pend) ==
    [k \in Keys |->
        IF pend[k].op = "insert" THEN Append(rs[k], pend[k].row)
        ELSE IF pend[k].op = "update" THEN <<pend[k].row>> \o Tail(rs[k])
        ELSE rs[k]]

\* the loop ends, transaction.atomic() commits, the list is returned
BatchCommit ==
    LET K == {k \in Keys : batch.pending[k].op # "none"}
    IN  /\ pc["batch"] = "loop"
        /\ batch.todo = << >>
        /\ rows' = ApplyPending(rows, batch.pending)
        /\ BuildWrote(K, rows', [k \in K |-> batch.pending[k].row],
                      [k \in K |-> batch.pending[k].stale])
        /\ batch' = BatchIdle
        /\ pc' = [pc EXCEPT !["batch"] = "idle"]
        /\ UNCHANGED <<settings, specialPeriods, staff, logs, today, web,
                       cron, period, edits,
                   call,
                   punchVars, cache>>

\* the computation or the storage raises while a staff of the batch is
\* processed: transaction.atomic() rolls back and the error propagates
BatchRaise ==
    /\ pc["batch"] \in {"loop", "get", "create", "reget"}
    /\ batch.todo # << >>
    /\ batch' = [batch EXCEPT !.pending = [k \in Keys |-> NoPending]]
    /\ pc' = [pc EXCEPT !["batch"] = "failed"]
    /\ UNCHANGED <<settings, specialPeriods, staff, logs, today, rows, web,
                   cron, period, writer, current, idem, edits,
                   call,
                   punchVars, cache>>

\* the caller has the error: the call is over
BatchReturn ==
    /\ pc["batch"] = "failed"
    /\ batch' = BatchIdle
    /\ pc' = [pc EXCEPT !["batch"] = "idle"]
    /\ UNCHANGED <<settings, specialPeriods, staff, logs, today, rows, web,
                   cron, period, writer, current, idem, edits,
                   call,
                   punchVars, cache>>


\* ------------------------------------------------------------------------
\* payroll_recalc_daily (scheduled at night, autocommit)
\* ------------------------------------------------------------------------

\* is_special of the command: the three named ranges of the setting
CronSpecialRanges(setting) ==
    IF ~setting.present THEN {}
    ELSE {r \in {<<setting.new_year_from, setting.new_year_to>>,
                 <<setting.bon_from, setting.bon_to>>,
                 <<setting.gw_from, setting.gw_to>>} :
            r[1] # NoDate /\ r[2] # NoDate}

\* the characters of n in decimal, zero-padded to width w (strftime)
DigitChar(d) ==
    CASE d = 0 -> "0" [] d = 1 -> "1" [] d = 2 -> "2" [] d = 3 -> "3"
      [] d = 4 -> "4" [] d = 5 -> "5" [] d = 6 -> "6" [] d = 7 -> "7"
      [] d = 8 -> "8" [] d = 9 -> "9"

RECURSIVE Padded(_, _)
Padded(n, w) ==
    IF w = 0 THEN << >> ELSE Append(Padded(n \div 10, w - 1), DigitChar(n % 10))

\* today.strftime("%Y%m")
StrfYm(day) == Padded(day[1], 4) \o Padded(day[2], 2)

\* [dt_first, dt_last): the calendar month of today
CronMonth(day) ==
    [start |-> MkDateTime(day[1], day[2], 1),
     end |-> IF day[2] = 12 THEN MkDateTime(day[1] + 1, 1, 1)
             ELSE MkDateTime(day[1], day[2] + 1, 1)]

\* per_day of the command: every civil day of a pair is a key, also with
\* a zero duration
CronDayKeys(pairs) == {DateOf(pairs[i].cin) : i \in 1..Len(pairs)}

\* the durations and worked_days of the command for one staff
CronAggregate(allLogs, s, day, setting) ==
    LET m == CronMonth(day)
        weekly == IF setting.present THEN setting.weekly_holidays ELSE {}
        ranges == CronSpecialRanges(setting)
        pairs == _iter_inout_pairs(allLogs, s, m.start, m.end)
        days == CronDayKeys(pairs)
        per_day == [d \in days |->
                      FlatDeduct([k \in {"normal", "special", "holiday"} |->
                          DayBucket(pairs, d, k, setting, ranges, weekly)])]
    IN  [normal |-> SumOver(days, per_day, "normal"),
         special |-> SumOver(days, per_day, "special"),
         holiday |-> SumOver(days, per_day, "holiday"),
         worked_days |-> Cardinality(days)]

\* staff.wage_type == Staff.WageType: a string compared with the
\* TextChoices class itself, never equal
WageTypeIsEnumClass(wage_type) == FALSE

\* quarter hours of a duration: hours_qtr_decimal, without _hours' 4 digits
hours_qtr_decimal(td) == RoundHalfUp(td, 15)

\* employment_insurance as the command assigns it
CronEmploymentIns(pi) ==
    IF pi.employment_insured /\ pi.health_insurance # 0
    THEN pi.health_insurance ELSE 0

\* the fields the command assigns to the fetched row before save()
CronFields(obj, staffRec, setting, agg, day) ==
    LET total_td == agg.normal + agg.special + agg.holiday
        special_rate == IF setting.present /\ setting.special_rate # 0
                        THEN setting.special_rate ELSE 100
        pi == staffRec.payroll_info
        pay == fixed_salary_pay(staffRec.monthly_salary, pi.deduct_method,
                   agg.worked_days, total_td, 0, 0, <<day[1], day[2]>>,
                   <<day[1], day[2]>>)
        hr == staffRec.hourly_rate
        salaried == WageTypeIsEnumClass(staffRec.wage_type)
                    /\ staffRec.monthly_salary # 0
        hourly == WageTypeIsEnumClass(staffRec.wage_type) /\ hr # 0
        hours == IF salaried \/ ~hourly
                 THEN [total_hours |-> total_td, normal_hours |-> total_td,
                       special_hours |-> 0, holiday_hours |-> 0]
                 ELSE [total_hours |-> total_td, normal_hours |-> agg.normal,
                       special_hours |-> agg.special,
                       holiday_hours |-> agg.holiday]
        gross == IF salaried THEN _yen_floor(pay.n, pay.d)
                 ELSE IF hourly
                 THEN _yen_floor(hr * hours_qtr_decimal(agg.normal), 4)
                      + _yen_floor(hr * hours_qtr_decimal(agg.special)
                                   * special_rate, 400)
                      + _yen_floor(hr * hours_qtr_decimal(agg.holiday)
                                   * special_rate, 400)
                 ELSE 0
    IN  [obj EXCEPT
           !.gross_pay = gross,
           !.total_hours = hours.total_hours,
           !.normal_hours = hours.normal_hours,
           !.special_hours = hours.special_hours,
           !.holiday_hours = hours.holiday_hours,
           !.commute_allowance = pi.commute_allowance,
           !.health_insurance = pi.health_insurance,
           !.pension = pi.pension,
           !.resident_tax = pi.resident_tax,
           !.withholding_tax = pi.withholding_tax,
           !.employment_insurance = CronEmploymentIns(pi)]

\* handle() starts: today's year-month, the setting, all staff
CronCall ==
    /\ pc["cron"] = "idle"
    /\ cron' = [CronIdle EXCEPT !.ym = StrfYm(today),
                                !.setting = FirstSetting(settings),
                                !.todo = AllStaff]
    /\ pc' = [pc EXCEPT !["cron"] = "loop"]
    /\ UNCHANGED <<settings, specialPeriods, staff, logs, today, rows, web,
                   batch, period, writer, current, idem, edits,
                   call,
                   punchVars, cache>>

\* the month's punches of the next staff: none -> skip the staff,
\* otherwise aggregate them
CronLogs ==
    LET s == Head(cron.todo)
        m == CronMonth(today)
        agg == CronAggregate(logs, s, today, cron.setting)
    IN  /\ pc["cron"] = "loop"
        /\ cron.todo # << >>
        /\ IF LogsIn(logs, s, m.start, m.end) = {}
           THEN /\ cron' = [cron EXCEPT !.todo = Tail(@)]
                /\ pc' = pc
           ELSE /\ cron' = [cron EXCEPT
                              !.durs = [normal |-> agg.normal,
                                        special |-> agg.special,
                                        holiday |-> agg.holiday],
                              !.worked_days = agg.worked_days,
                              !.stale = (cron.setting # FirstSetting(settings))]
                /\ pc' = [pc EXCEPT !["cron"] = "get"]
        /\ UNCHANGED <<settings, specialPeriods, staff, logs, today, rows, web,
                       batch, period, writer, current, idem, edits,
                   call,
                   punchVars, cache>>

\* get_or_create: the get
CronGet ==
    LET k == Key(Head(cron.todo), cron.ym)
    IN  /\ pc["cron"] \in {"get", "reget"}
        /\ IF Len(rows[k]) > 0
           THEN /\ cron' = [cron EXCEPT !.obj = Head(rows[k])]
                /\ pc' = [pc EXCEPT !["cron"] = "save"]
           ELSE /\ pc["cron"] = "get"
                /\ cron' = cron
                /\ pc' = [pc EXCEPT !["cron"] = "create"]
        /\ UNCHANGED <<settings, specialPeriods, staff, logs, today, rows, web,
                       batch, period, writer, current, idem, edits,
                   call,
                   punchVars, cache>>

\* get_or_create: the create, committed at once with the field defaults
CronCreate ==
    LET k == Key(Head(cron.todo), cron.ym)
    IN  /\ pc["cron"] = "create"
        /\ ~Locked(k)
        /\ IF UniqueViolation(rows, k)
           THEN /\ pc' = [pc EXCEPT !["cron"] = "reget"]
                /\ UNCHANGED <<rows, cron, batch, writer, current, idem,
                   call,
                   punchVars, cache>>
           ELSE /\ rows' = StoreInsert(rows, k, DefaultRow)
                /\ CronWrote(k, "default", DefaultRow, TRUE)
                /\ cron' = [cron EXCEPT !.obj = DefaultRow]
                /\ pc' = [pc EXCEPT !["cron"] = "save"]
                /\ batch' = batch
        /\ UNCHANGED <<settings, specialPeriods, staff, logs, today, web,
                       period, edits,
                   call,
                   punchVars, cache>>

\* the fields are assigned and payroll.save() writes every column
CronSave ==
    LET s == Head(cron.todo)
        k == Key(s, cron.ym)
        agg == [normal |-> cron.durs.normal, special |-> cron.durs.special,
                holiday |-> cron.durs.holiday,
                worked_days |-> cron.worked_days]
        r == CronFields(cron.obj, staff[s], cron.setting, agg, today)
    IN  /\ pc["cron"] = "save"
        /\ ~Locked(k)
        /\ rows' = StoreUpdate(rows, k, r)
        /\ CronWrote(k, "recalc", r, cron.stale)
        /\ cron' = [cron EXCEPT !.todo = Tail(@),
                                !.durs = CronIdle.durs, !.worked_days = 0,
                                !.obj = DefaultRow, !.stale = FALSE]
        /\ pc' = [pc EXCEPT !["cron"] = "loop"]
        /\ batch' = batch
        /\ UNCHANGED <<settings, specialPeriods, staff, logs, today, web,
                       period, edits,
                   call,
                   punchVars, cache>>

\* every staff is done: handle() returns
CronDone ==
    /\ pc["cron"] = "loop"
    /\ cron.todo = << >>
    /\ cron' = CronIdle
    /\ pc' = [pc EXCEPT !["cron"] = "idle"]
    /\ UNCHANGED <<settings, specialPeriods, staff, logs, today, rows, web,
                   batch, period, writer, current, idem, edits,
                   call,
                   punchVars, cache>>

\* the process is killed part-way
CronKilled ==
    /\ pc["cron"] \in {"get", "reget", "create", "save"}
    /\ cron' = CronIdle
    /\ pc' = [pc EXCEPT !["cron"] = "idle"]
    /\ UNCHANGED <<settings, specialPeriods, staff, logs, today, rows, web,
                   batch, period, writer, current, idem, edits,
                   call,
                   punchVars, cache>>

\* ------------------------------------------------------------------------
\* The system
\* ------------------------------------------------------------------------

\* punches, configuration and profiles change
InputChange ==
    \/ \E lg \in LogPool : AddLog(lg)
    \/ \E new \in SettingChoices : SaveSetting(new)
    \/ \E s \in Staffs, info \in InfoChoices, ym \in YMs :
          WebStaffEdit(s, info, ym)

\* build_monthly_payroll from a request thread
WebStep ==
    \/ \E s \in Staffs, ym \in YMs : WebBuild(s, ym)
    \/ WebGet
    \/ WebCreate

\* generate_monthly_payroll
BatchStep ==
    \/ \E ym \in YMs : BatchCall(ym)
    \/ BatchCompute
    \/ BatchGet
    \/ BatchCreate
    \/ BatchCommit
    \/ BatchRaise
    \/ BatchReturn

\* payroll_recalc_daily
CronStep ==
    \/ CronCall
    \/ CronLogs
    \/ CronGet
    \/ CronCreate
    \/ CronSave
    \/ CronDone
    \/ CronKilled

\* the on-demand engine: views and the batch
Next == InputChange \/ WebStep \/ BatchStep

Spec == Init /\ [][Next]_vars

\* the nightly recalculation beside the views
NextRecalc == InputChange \/ WebStep \/ CronStep

SpecRecalc == Init /\ [][NextRecalc]_vars

\* ------------------------------------------------------------------------
\* The Period Resolver on its own
\* ------------------------------------------------------------------------

\* closing days and years explored
MaxClosingDay == 31

FirstYear == 2023

LastYear == 2025

\* any closing day may be configured
InitPeriod ==
    /\ \E d \in 1..MaxClosingDay :
          settings = <<[SettingA EXCEPT !.closing_day = d]>>
    /\ specialPeriods = {}
    /\ staff = StaffInit
    /\ logs = LogsInit
    /\ today = <<2025, 1, 20>>
    /\ rows = [k \in Keys |-> << >>]
    /\ pc = [p \in Procs |-> "idle"]
    /\ web = WebIdle
    /\ batch = BatchIdle
    /\ cron = CronIdle
    /\ period = NoPeriodCall
    /\ writer = [k \in Keys |-> "none"]
    /\ current = [k \in Keys |-> FALSE]
    /\ idem = [k \in Keys |-> "none"]
    /\ edits = 0
    /\ call = NoCall
    /\ NoAttendance

\* resolve_payroll_period(ym) for the year-month written as YYYYMM
ResolvePeriod(year, month) ==
    /\ period' = [called |-> TRUE, year |-> year, month |-> month,
                  result |-> resolve_payroll_period(
                                 Padded(year, 4) \o Padded(month, 2),
                                 FirstSetting(settings))]
    /\ UNCHANGED <<settings, specialPeriods, staff, logs, today, rows, pc, web,
                   batch, cron, writer, current, idem, edits,
                   call,
                   punchVars, cache>>

NextPeriod == \E year \in FirstYear..LastYear, month \in 1..12 :
                 ResolvePeriod(year, month)

SpecPeriod == InitPeriod /\ [][NextPeriod]_vars

\* ------------------------------------------------------------------------
\* The Period Resolver over closing-day values outside 1..31
\* ------------------------------------------------------------------------

\* largest stored closing-day value explored
MaxRawClosingDay == 33

\* no setting row, or a row whose closing_day is any small integer: the
\* column is an integer column and the 1..31 validators run in forms only
InitClosing ==
    /\ settings \in {<< >>}
          \cup {<<[SettingA EXCEPT !.closing_day = d]>> :
                   d \in (-2)..MaxRawClosingDay}
    /\ specialPeriods = {}
    /\ staff = StaffInit
    /\ logs = LogsInit
    /\ today = <<2025, 1, 20>>
    /\ rows = [k \in Keys |-> << >>]
    /\ pc = [p \in Procs |-> "idle"]
    /\ web = WebIdle
    /\ batch = BatchIdle
    /\ cron = CronIdle
    /\ period = NoPeriodCall
    /\ writer = [k \in Keys |-> "none"]
    /\ current = [k \in Keys |-> FALSE]
    /\ idem = [k \in Keys |-> "none"]
    /\ edits = 0
    /\ call = NoCall
    /\ NoAttendance

SpecClosing == InitClosing /\ [][NextPeriod]_vars

\* ------------------------------------------------------------------------
\* Calls with any year-month string
\* ------------------------------------------------------------------------

\* strings that are not six decimal digits: too short, too long, a
\* separator inside, empty
BadYms ==
    {<<"2", "0", "2", "5", "1">>,
     <<"2", "0", "2", "5", "0", "1", "1">>,
     <<"2", "0", "2", "5", "-", "1">>,
     << >>}

YmInputs == YMs \cup BadYms

\* build_monthly_payroll(s, ym) where _parse_ym or _resolve_period raises:
\* the error leaves the function before anything else is done
WebBuildRaises(s, ym) ==
    LET p == _parse_ym(ym)
        per == _resolve_period(p.year, p.month, FirstSetting(settings))
    IN  /\ pc["web"] = "idle"
        /\ p.err \/ per.err
        /\ web' = [WebIdle EXCEPT !.staff = s, !.ym = ym]
        /\ pc' = [pc EXCEPT !["web"] = "raised"]
        /\ UNCHANGED <<settings, specialPeriods, staff, logs, today, rows,
                       batch, cron, period, writer, current, idem, edits,
                       call,
                   punchVars, cache>>

\* the caller has the error: the call is over
WebReturn ==
    /\ pc["web"] = "raised"
    /\ web' = WebIdle
    /\ pc' = [pc EXCEPT !["web"] = "idle"]
    /\ UNCHANGED <<settings, specialPeriods, staff, logs, today, rows, batch,
                   cron, period, writer, current, idem, edits, call,
                   punchVars, cache>>

\* generate_monthly_payroll(ym) where _parse_ym or _resolve_period raises,
\* before the transaction is opened
BatchCallRaises(ym) ==
    LET p == _parse_ym(ym)
        per == _resolve_period(p.year, p.month, FirstSetting(settings))
    IN  /\ pc["batch"] = "idle"
        /\ p.err \/ per.err
        /\ batch' = [BatchIdle EXCEPT !.ym = ym]
        /\ pc' = [pc EXCEPT !["batch"] = "failed"]
        /\ UNCHANGED <<settings, specialPeriods, staff, logs, today, rows, web,
                       cron, period, writer, current, idem, edits, call,
                   punchVars, cache>>

\* resolve_payroll_period(ym) for a string
ResolveYm(ym) ==
    /\ call' = [fn |-> "resolve_payroll_period", ym |-> ym,
                result |-> resolve_payroll_period(ym, FirstSetting(settings))]
    /\ UNCHANGED <<settings, specialPeriods, staff, logs, today, rows, pc, web,
                   batch, cron, period, writer, current, idem, edits,
                   punchVars, cache>>

NextYm ==
    \/ WebStep
    \/ BatchStep
    \/ \E s \in Staffs, ym \in YmInputs : WebBuildRaises(s, ym)
    \/ WebReturn
    \/ \E ym \in YmInputs : BatchCallRaises(ym)
    \/ \E ym \in YmInputs : ResolveYm(ym)

SpecYm == Init /\ [][NextYm]_vars

\* ------------------------------------------------------------------------
\* The Duration Aggregator on its own
\* ------------------------------------------------------------------------

\* punches of one staff explored per run
MaxPunches == 4

\* a setting with a Bon day (Wednesday 8 January) and a Golden Week range
\* (Monday 13 - Tuesday 14 January) beside the New Year range, and a lunch
\* break that ends at 12:45
SettingG ==
    [SettingA EXCEPT !.bon_from = D(2025, 1, 8), !.bon_to = D(2025, 1, 8),
                     !.gw_from = D(2025, 1, 13), !.gw_to = D(2025, 1, 14),
                     !.lunch_break_to = 12 * 60 + 45]

\* a SpecialPeriod row for Sunday 5 January
SpecialSunday == [start |-> D(2025, 1, 5), end |-> D(2025, 1, 5)]

\* candidate punches of s1 in January 2025: a New Year shift, two
\* check-ins and two check-outs around a midnight, shifts touching the
\* lunch break, a ten-minute shift, a full day, and a shift that ends at
\* the very end of the month
PunchPool ==
    {Log("s1", CHECK_IN, T(2025, 1, 2, 10, 0)),
     Log("s1", CHECK_OUT, T(2025, 1, 2, 11, 7)),
     Log("s1", CHECK_IN, T(2025, 1, 5, 22, 0)),
     Log("s1", CHECK_IN, T(2025, 1, 5, 23, 0)),
     Log("s1", CHECK_OUT, T(2025, 1, 6, 2, 0)),
     Log("s1", CHECK_OUT, T(2025, 1, 6, 3, 0)),
     Log("s1", CHECK_IN, T(2025, 1, 6, 11, 30)),
     Log("s1", CHECK_OUT, T(2025, 1, 6, 12, 10)),
     Log("s1", CHECK_IN, T(2025, 1, 6, 12, 40)),
     Log("s1", CHECK_OUT, T(2025, 1, 6, 12, 50)),
     Log("s1", CHECK_IN, T(2025, 1, 6, 13, 30)),
     Log("s1", CHECK_OUT, T(2025, 1, 6, 13, 40)),
     Log("s1", CHECK_IN, T(2025, 1, 13, 9, 0)),
     Log("s1", CHECK_OUT, T(2025, 1, 13, 18, 0)),
     Log("s1", CHECK_IN, T(2025, 1, 31, 23, 0)),
     Log("s1", CHECK_OUT, T(2025, 2, 1, 0, 0))}

\* the punches of s2 that are always there
OtherStaffLogs == {lg \in LogsInit : lg.staff = "s2"}

\* any configuration, any few punches
InitAggregate ==
    /\ settings \in {<< >>, <<SettingA>>, <<SettingG>>}
    /\ specialPeriods \in {{}, {SpecialSunday}}
    /\ staff = StaffInit
    /\ \E P \in SUBSET PunchPool :
          /\ Cardinality(P) <= MaxPunches
          /\ logs = OtherStaffLogs \cup P
    /\ today = <<2025, 1, 20>>
    /\ rows = [k \in Keys |-> << >>]
    /\ pc = [p \in Procs |-> "idle"]
    /\ web = WebIdle
    /\ batch = BatchIdle
    /\ cron = CronIdle
    /\ period = NoPeriodCall
    /\ writer = [k \in Keys |-> "none"]
    /\ current = [k \in Keys |-> FALSE]
    /\ idem = [k \in Keys |-> "none"]
    /\ edits = 0
    /\ call = NoCall
    /\ NoAttendance

\* the locals of _aggregate_durations when it returns, and the defaults
\* build_monthly_payroll derives from its result
AggregateLocals(allLogs, periods, staffRec, s, start, end, company) ==
    LET period_start_date == DateOf(start)
        period_end_date ==
            IF end <= start THEN period_start_date
            ELSE Max2(DateOf(end - MinPerDay), period_start_date)
        special_ranges == _collect_special_ranges(period_start_date,
                              period_end_date, company, periods)
        w_holidays == _weekly_holidays(company)
        pairs == _iter_inout_pairs(allLogs, s, start, end)
        days == DailyKeys(pairs, company)
        raw == [d \in days |->
                  [k \in {"normal", "special", "holiday"} |->
                      DayBucket(pairs, d, k, company, special_ranges,
                                w_holidays)]]
        totals == _aggregate_durations(allLogs, periods, s, start, end,
                                       company)
    IN  [fn |-> "_aggregate_durations", staff |-> s,
         start |-> start, end |-> end,
         pairs |-> pairs,
         kinds |-> [i \in 1..Len(pairs) |->
                      ShiftKind(pairs[i], special_ranges, w_holidays)],
         durations |-> [i \in 1..Len(pairs) |->
                          ShiftDuration(pairs[i], company)],
         raw |-> raw,
         daily |-> [d \in days |-> FlatDeduct(raw[d])],
         totals |-> totals,
         defaults |-> BuildDefaults(staffRec, company, totals,
                                    IncludeCommute)]

\* _aggregate_durations(s, start, end, company) for the period of ym, as
\* build_monthly_payroll calls it
Aggregate(s, ym) ==
    LET company == FirstSetting(settings)
        per == resolve_payroll_period(ym, company)
    IN  /\ ~per.err
        /\ call' = AggregateLocals(logs, specialPeriods, staff[s], s,
                                   per.start, per.end, company)
        /\ UNCHANGED <<settings, specialPeriods, staff, logs, today, rows, pc,
                       web, batch, cron, period, writer, current, idem,
                       edits,
                   punchVars, cache>>

NextAggregate == \E s \in Staffs, ym \in YMs : Aggregate(s, ym)

SpecAggregate == InitAggregate /\ [][NextAggregate]_vars

\* ------------------------------------------------------------------------
\* Two consecutive periods
\* ------------------------------------------------------------------------

YM202502 == <<"2", "0", "2", "5", "0", "2">>

\* the year-months on either side of a period boundary
BoundaryYms == {YM202501, YM202502}

\* candidate punches of s1 around the boundaries of 26 January (closing
\* day 25) and 1 February (calendar month): shifts inside a period, shifts
\* that start before a boundary and end at or after it
BoundaryPool ==
    {Log("s1", CHECK_IN, T(2025, 1, 24, 9, 0)),
     Log("s1", CHECK_OUT, T(2025, 1, 24, 10, 0)),
     Log("s1", CHECK_IN, T(2025, 1, 25, 22, 0)),
     Log("s1", CHECK_OUT, T(2025, 1, 26, 0, 0)),
     Log("s1", CHECK_OUT, T(2025, 1, 26, 2, 0)),
     Log("s1", CHECK_IN, T(2025, 1, 26, 8, 0)),
     Log("s1", CHECK_OUT, T(2025, 1, 26, 9, 0)),
     Log("s1", CHECK_IN, T(2025, 1, 31, 23, 0)),
     Log("s1", CHECK_OUT, T(2025, 2, 1, 0, 0)),
     Log("s1", CHECK_OUT, T(2025, 2, 1, 1, 0))}

InitBoundary ==
    /\ settings \in {<<SettingA>>, <<SettingB>>}
    /\ specialPeriods = {}
    /\ staff = StaffInit
    /\ \E P \in SUBSET BoundaryPool :
          /\ Cardinality(P) <= MaxPunches
          /\ logs = OtherStaffLogs \cup P
    /\ today = <<2025, 1, 20>>
    /\ rows = [k \in Keys |-> << >>]
    /\ pc = [p \in Procs |-> "idle"]
    /\ web = WebIdle
    /\ batch = BatchIdle
    /\ cron = CronIdle
    /\ period = NoPeriodCall
    /\ writer = [k \in Keys |-> "none"]
    /\ current = [k \in Keys |-> FALSE]
    /\ idem = [k \in Keys |-> "none"]
    /\ edits = 0
    /\ call = NoCall
    /\ NoAttendance

NextBoundary == \E s \in Staffs, ym \in BoundaryYms : Aggregate(s, ym)

SpecBoundary == InitBoundary /\ [][NextBoundary]_vars

\* ------------------------------------------------------------------------
\* The flat daily deduction on its own
\* ------------------------------------------------------------------------

\* minutes in one bucket of a day
MaxBucketMinutes == 20

\* one day's buckets, any minutes in each, before the deduction loop
InitFlat ==
    /\ settings = <<SettingA>>
    /\ specialPeriods = {}
    /\ staff = StaffInit
    /\ logs = LogsInit
    /\ today = <<2025, 1, 20>>
    /\ rows = [k \in Keys |-> << >>]
    /\ pc = [p \in Procs |-> "idle"]
    /\ web = WebIdle
    /\ batch = BatchIdle
    /\ cron = CronIdle
    /\ period = NoPeriodCall
    /\ writer = [k \in Keys |-> "none"]
    /\ current = [k \in Keys |-> FALSE]
    /\ idem = [k \in Keys |-> "none"]
    /\ edits = 0
    /\ \E n \in 0..MaxBucketMinutes, sp \in 0..MaxBucketMinutes, h \in 0..MaxBucketMinutes :
          call = [fn |-> "daily", before |-> [normal |-> n, special |-> sp, holiday |-> h]]
    /\ NoAttendance

\* one turn of the loop over daily.items()
FlatDeductDay ==
    /\ call.fn = "daily"
    /\ call' = [fn |-> "flat", before |-> call.before,
                after |-> FlatDeduct(call.before)]
    /\ UNCHANGED <<settings, specialPeriods, staff, logs, today, rows, pc, web,
                   batch, cron, period, writer, current, idem, edits,
                   punchVars, cache>>

NextFlat == FlatDeductDay

SpecFlat == InitFlat /\ [][NextFlat]_vars

\* ------------------------------------------------------------------------
\* Staff rows with and without a wage
\* ------------------------------------------------------------------------

\* Staff rows as the table can hold them: hourly_rate and monthly_salary
\* are nullable (0 stands for None); Staff.clean runs in forms only
WageChoices ==
    {[wage_type |-> "hourly", hourly_rate |-> 1000, monthly_salary |-> 0, payroll_info |-> InfoFull],
     [wage_type |-> "hourly", hourly_rate |-> 0, monthly_salary |-> 0, payroll_info |-> InfoFull],
     [wage_type |-> "salary", hourly_rate |-> 0, monthly_salary |-> 200000, payroll_info |-> InfoFull],
     [wage_type |-> "salary", hourly_rate |-> 0, monthly_salary |-> 0, payroll_info |-> InfoFull]}

InitWage ==
    /\ settings \in {<< >>, <<SettingA>>, <<SettingB>>}
    /\ specialPeriods = {}
    /\ staff \in [Staffs -> WageChoices]
    /\ logs \in {{}, LogsInit}
    /\ today = <<2025, 1, 20>>
    /\ rows = [k \in Keys |-> << >>]
    /\ pc = [p \in Procs |-> "idle"]
    /\ web = WebIdle
    /\ batch = BatchIdle
    /\ cron = CronIdle
    /\ period = NoPeriodCall
    /\ writer = [k \in Keys |-> "none"]
    /\ current = [k \in Keys |-> FALSE]
    /\ idem = [k \in Keys |-> "none"]
    /\ edits = 0
    /\ call = NoCall
    /\ NoAttendance

NextWage == WebStep

SpecWage == InitWage /\ [][NextWage]_vars

\* ------------------------------------------------------------------------
\* Salaried staff and their deduction method
\* ------------------------------------------------------------------------

\* worked days handed to fixed_salary_pay
MaxWorkedDays == 31

\* what the deduct_method column can hold: the eight codes of
\* DeductMethod.CHOICES and, choices being checked in forms only, any other
\* string of up to 12 characters
MethodCodes == DeductMethods \cup {"bogus", ""}

\* months a target date or the day of the call can lie in
CallMonths == {<<2025, 1>>, <<2025, 2>>, <<2024, 2>>, <<2025, 4>>}

InitMethod ==
    /\ settings \in {<< >>, <<SettingA>>}
    /\ specialPeriods = {}
    /\ \E m \in MethodCodes :
          staff = [StaffInit EXCEPT !["s2"].payroll_info.deduct_method = m]
    /\ logs \in {{}, LogsInit}
    /\ today \in {<<2025, 1, 20>>, <<2025, 2, 20>>}
    /\ rows = [k \in Keys |-> << >>]
    /\ pc = [p \in Procs |-> "idle"]
    /\ web = WebIdle
    /\ batch = BatchIdle
    /\ cron = CronIdle
    /\ period = NoPeriodCall
    /\ writer = [k \in Keys |-> "none"]
    /\ current = [k \in Keys |-> FALSE]
    /\ idem = [k \in Keys |-> "none"]
    /\ edits = 0
    /\ call = NoCall
    /\ NoAttendance

\* fixed_salary_pay(salary=, method=, worked_days=, target_date=) for the
\* salary and the method of staff member s, called on `today`
FixedSalaryCall(s, worked_days, tdate) ==
    /\ pc["web"] = "idle"
    /\ call' = [fn |-> "fixed_salary_pay",
                salary |-> staff[s].monthly_salary,
                method |-> staff[s].payroll_info.deduct_method,
                worked_days |-> worked_days, tdate |-> tdate,
                result |-> fixed_salary_pay(staff[s].monthly_salary,
                              staff[s].payroll_info.deduct_method, worked_days,
                              0, 0, 0, tdate, <<today[1], today[2]>>)]
    /\ UNCHANGED <<settings, specialPeriods, staff, logs, today, rows, pc, web,
                   batch, cron, period, writer, current, idem, edits,
                   punchVars, cache>>

\* daily_or_hourly_unit(salary=, method=, target_date=)
UnitCall(s, tdate) ==
    /\ pc["web"] = "idle"
    /\ call' = [fn |-> "daily_or_hourly_unit",
                salary |-> staff[s].monthly_salary,
                method |-> staff[s].payroll_info.deduct_method,
                worked_days |-> 0, tdate |-> tdate,
                result |-> daily_or_hourly_unit(staff[s].monthly_salary,
                              staff[s].payroll_info.deduct_method, tdate, 0, 0)]
    /\ UNCHANGED <<settings, specialPeriods, staff, logs, today, rows, pc, web,
                   batch, cron, period, writer, current, idem, edits,
                   punchVars, cache>>

NextMethod ==
    \/ WebStep
    \/ \E wd \in {0, 20, MaxWorkedDays} : FixedSalaryCall("s2", wd, <<2025, 1>>)
    \/ UnitCall("s2", <<2025, 1>>)

SpecMethod == InitMethod /\ [][NextMethod]_vars

\* ------------------------------------------------------------------------
\* fixed_salary_pay on its own
\* ------------------------------------------------------------------------

\* the arguments of one call and the day on which it is made
InitSalaryPay ==
    /\ settings = <<SettingA>>
    /\ specialPeriods = {}
    /\ staff = StaffInit
    /\ logs = LogsInit
    /\ today \in {<<2025, 1, 20>>, <<2025, 2, 20>>, <<2025, 4, 10>>}
    /\ rows = [k \in Keys |-> << >>]
    /\ pc = [p \in Procs |-> "idle"]
    /\ web = WebIdle
    /\ batch = BatchIdle
    /\ cron = CronIdle
    /\ period = NoPeriodCall
    /\ writer = [k \in Keys |-> "none"]
    /\ current = [k \in Keys |-> FALSE]
    /\ idem = [k \in Keys |-> "none"]
    /\ edits = 0
    /\ \E sal \in {200000, 300000}, m \in DeductMethods, wd \in 0..MaxWorkedDays, wh \in {0, 8 * 60}, td \in CallMonths :
          call = [fn |-> "args", salary |-> sal, method |-> m, worked_days |-> wd, worked_hours |-> wh, tdate |-> td]
    /\ NoAttendance

\* fixed_salary_pay(salary=, method=, worked_days=, worked_hours=,
\* target_date=) called on `today`
FixedSalaryApply ==
    /\ call.fn = "args"
    /\ call' = [fn |-> "fixed_salary_pay", salary |-> call.salary,
                method |-> call.method, worked_days |-> call.worked_days,
                worked_hours |-> call.worked_hours, tdate |-> call.tdate,
                result |-> fixed_salary_pay(call.salary, call.method,
                              call.worked_days, call.worked_hours, 0, 0,
                              call.tdate, <<today[1], today[2]>>)]
    /\ UNCHANGED <<settings, specialPeriods, staff, logs, today, rows, pc, web,
                   batch, cron, period, writer, current, idem, edits,
                   punchVars, cache>>

NextSalaryPay == FixedSalaryApply

SpecSalaryPay == InitSalaryPay /\ [][NextSalaryPay]_vars

\* ------------------------------------------------------------------------
\* The daily closing-day task
\* ------------------------------------------------------------------------

\* the first day of a month to watch, and any closing day in the setting
InitTrigger ==
    /\ settings \in {<< >>} \cup {<<[SettingA EXCEPT !.closing_day = d]>> : d \in 1..MaxClosingDay}
    /\ specialPeriods = {}
    /\ staff = StaffInit
    /\ logs = LogsInit
    /\ \E m \in CallMonths :
          /\ today = <<m[1], m[2], 1>>
          /\ call = [fn |-> "generate_monthly_if_closing_day", month |-> m, triggered |-> << >>]
    /\ rows = [k \in Keys |-> << >>]
    /\ pc = [p \in Procs |-> "idle"]
    /\ web = WebIdle
    /\ batch = BatchIdle
    /\ cron = CronIdle
    /\ period = NoPeriodCall
    /\ writer = [k \in Keys |-> "none"]
    /\ current = [k \in Keys |-> FALSE]
    /\ idem = [k \in Keys |-> "none"]
    /\ edits = 0
    /\ NoAttendance

\* the day after <<y, m, d>>
NextDay(day) ==
    IF day[3] < DaysInMonth(day[1], day[2]) THEN <<day[1], day[2], day[3] + 1>>
    ELSE IF day[2] < 12 THEN <<day[1], day[2] + 1, 1>>
    ELSE <<day[1] + 1, 1, 1>>

\* generate_monthly_if_closing_day() on `today`: without a setting row or
\* on a day other than the closing day it returns 0, on the closing day it
\* hands today's year-month to generate_monthly_payroll (whose steps are
\* the batch actions; here the day of the hand-over is recorded); the
\* scheduler then waits for the next day
GenerateMonthlyIfClosingDay ==
    LET setting == FirstSetting(settings)
        closing == IF setting.closing_day # 0 THEN setting.closing_day ELSE 25
    IN  /\ call.fn = "generate_monthly_if_closing_day"
        /\ <<today[1], today[2]>> = call.month
        /\ call' = IF setting.present /\ today[3] = closing
                   THEN [call EXCEPT !.triggered = Append(@, today)]
                   ELSE call
        /\ today' = NextDay(today)
        /\ UNCHANGED <<settings, specialPeriods, staff, logs, rows, pc, web,
                       batch, cron, period, writer, current, idem, edits,
                   punchVars, cache>>

NextTrigger == GenerateMonthlyIfClosingDay

SpecTrigger == InitTrigger /\ [][NextTrigger]_vars

\* ------------------------------------------------------------------------
\* The punch views (attendance_app/views.py)
\* ------------------------------------------------------------------------

\* AttendanceLog rows created per run
MaxCreated == 2

\* clock ticks per run
MaxClock == 2

ACTION_INTERVAL_SEC == 60

\* the clock moves in steps of half the interval
TickSeconds == ACTION_INTERVAL_SEC \div 2

\* idempotency keys a client may send
PunchKeys == {NoKey, "k1"}

\* the response is sent: the request's locals are gone, the session stays
Responded(q) == [ReqIdle EXCEPT !.session = q.session]

\* the candidates of .order_by("-timestamp").first(): the rows of the
\* staff member with the greatest timestamp
LastPunches(s) ==
    {p \in punches : p.staff = s
        /\ \A q \in punches : q.staff = s => q.timestamp <= p.timestamp}

\* _within_interval_any, given the row _last_punch returned
WithinInterval(last) ==
    LET diff == IF now >= last.timestamp THEN now - last.timestamp
                ELSE last.timestamp - now
    IN  diff < ACTION_INTERVAL_SEC

\* the interval check of a view for staff member s
_within_interval_any(s) ==
    LastPunches(s) # {} /\ \E last \in LastPunches(s) : WithinInterval(last)

\* qr_checkin's next_action: "in" after no punch or a check-out
NextAction(s) ==
    IF LastPunches(s) = {} THEN {CHECK_IN}
    ELSE {IF last.action = CHECK_OUT THEN CHECK_IN ELSE CHECK_OUT : last \in LastPunches(s)}

\* RegisterActionView.post and qr_clock up to the interval check: inside
\* the interval the request is refused, otherwise it goes on to
\* _create_punch
SubmitPunch(r, flow, s, a, key) ==
    /\ req[r].pc = "idle"
    /\ flow \in {"register", "api"}
    /\ req' = [req EXCEPT ![r] =
                 IF _within_interval_any(s) THEN @
                 ELSE [@ EXCEPT !.pc = "punch", !.staff = s, !.action = a,
                                !.key = key]]
    /\ UNCHANGED <<settings, specialPeriods, staff, logs, today, rows, pc, web,
                   batch, cron, period, writer, current, idem, edits, call,
                   punches, cancels, now, created, cancelled, cache>>

\* qr_checkin: the staff id goes into the session; inside the interval
\* the warning page is shown, otherwise the punch is registered
QrCheckin(r, s, key) ==
    /\ req[r].pc = "idle"
    /\ \E a \in NextAction(s) :
          req' = [req EXCEPT ![r] =
                    [@ EXCEPT !.pc = IF _within_interval_any(s) THEN "warned"
                                     ELSE "punch",
                              !.staff = s, !.action = a, !.key = key,
                              !.session = s]]
    /\ UNCHANGED <<settings, specialPeriods, staff, logs, today, rows, pc, web,
                   batch, cron, period, writer, current, idem, edits, call,
                   punches, cancels, now, created, cancelled, cache>>

\* warn_recent_action: "cancel" stops; "continue" checks the interval
\* again and registers only outside it
WarnRecentAction(r, decision) ==
    /\ req[r].pc = "warned"
    /\ req' = [req EXCEPT ![r] =
                 IF decision = "cancel" \/ _within_interval_any(req[r].staff)
                 THEN Responded(@) ELSE [@ EXCEPT !.pc = "punch"]]
    /\ UNCHANGED <<settings, specialPeriods, staff, logs, today, rows, pc, web,
                   batch, cron, period, writer, current, idem, edits, call,
                   punches, cancels, now, created, cancelled, cache>>

\* _create_punch, the idempotency lookup: a row of the staff member with
\* the key is returned as it is, otherwise a row is to be created
CreatePunchLookup(r) ==
    /\ req[r].pc = "punch"
    /\ req' = [req EXCEPT ![r] =
                 IF req[r].key # NoKey
                    /\ \E p \in punches : p.staff = req[r].staff
                                           /\ p.idempotency_key = req[r].key
                 THEN Responded(@) ELSE [@ EXCEPT !.pc = "create"]]
    /\ UNCHANGED <<settings, specialPeriods, staff, logs, today, rows, pc, web,
                   batch, cron, period, writer, current, idem, edits, call,
                   punches, cancels, now, created, cancelled, cache>>

\* _create_punch, AttendanceLog.objects.create(...)
CreatePunchInsert(r) ==
    /\ req[r].pc = "create"
    /\ created < MaxCreated
    /\ punches' = punches \cup
                    {[id |-> created + 1, staff |-> req[r].staff,
                      action |-> req[r].action, timestamp |-> now,
                      idempotency_key |-> req[r].key]}
    /\ created' = created + 1
    /\ req' = [req EXCEPT ![r] = Responded(@)]
    /\ UNCHANGED <<settings, specialPeriods, staff, logs, today, rows, pc, web,
                   batch, cron, period, writer, current, idem, edits, call,
                   cancels, now, cancelled, cache>>

\* cancel_last, one transaction: the CancelLog row is created, then the
\* last punch is deleted, and the delete cascades to the CancelLog rows
\* whose canceled_log is that punch (on_delete=CASCADE)
CancelLast(r) ==
    LET s == req[r].session
    IN  /\ req[r].pc = "idle"
        /\ s # NoStaff
        /\ LastPunches(s) # {}
        /\ \E last_log \in LastPunches(s) :
              LET entry == [id |-> cancelled + 1, staff |-> s,
                            canceled_log |-> last_log.id, canceled_at |-> now]
              IN  /\ cancels' = {c \in cancels \cup {entry} :
                                    c.canceled_log # last_log.id}
                  /\ punches' = punches \ {last_log}
        /\ cancelled' = cancelled + 1
        /\ UNCHANGED <<settings, specialPeriods, staff, logs, today, rows, pc,
                       web, batch, cron, period, writer, current, idem, edits,
                       call, req, now, created, cache>>

\* time passes
Tick ==
    /\ now < MaxClock * TickSeconds
    /\ now' = now + TickSeconds
    /\ UNCHANGED <<settings, specialPeriods, staff, logs, today, rows, pc, web,
                   batch, cron, period, writer, current, idem, edits, call,
                   punches, cancels, req, created, cancelled, cache>>

NextPunch ==
    \/ \E r \in Reqs, flow \in {"register", "api"}, s \in Staffs, a \in {CHECK_IN, CHECK_OUT}, key \in PunchKeys :
          SubmitPunch(r, flow, s, a, key)
    \/ \E r \in Reqs, s \in Staffs, key \in PunchKeys : QrCheckin(r, s, key)
    \/ \E r \in Reqs, decision \in {"continue", "cancel"} : WarnRecentAction(r, decision)
    \/ \E r \in Reqs : CreatePunchLookup(r)
    \/ \E r \in Reqs : CreatePunchInsert(r)
    \/ \E r \in Reqs : CancelLast(r)
    \/ Tick

SpecPunch == Init /\ [][NextPunch]_vars

\* ------------------------------------------------------------------------
\* The configuration views and the cached company setting
\* (payroll/views.py, payroll/admin.py)
\* ------------------------------------------------------------------------

InitConfig ==
    /\ settings \in {<< >>, <<SettingA>>}
    /\ specialPeriods = {}
    /\ staff = StaffInit
    /\ logs = LogsInit
    /\ today = <<2025, 1, 20>>
    /\ rows = [k \in Keys |-> << >>]
    /\ pc = [p \in Procs |-> "idle"]
    /\ web = WebIdle
    /\ batch = BatchIdle
    /\ cron = CronIdle
    /\ period = NoPeriodCall
    /\ writer = [k \in Keys |-> "none"]
    /\ current = [k \in Keys |-> FALSE]
    /\ idem = [k \in Keys |-> "none"]
    /\ edits = 0
    /\ call = NoCall
    /\ NoAttendance

\* PayrollConfigView.post up to form_valid: get_object() is the first row
\* (pk 1) or None (0), the form holds the posted values
ConfigGet(r, new) ==
    /\ req[r].pc = "idle"
    /\ req' = [req EXCEPT ![r] =
                 [@ EXCEPT !.pc = "form_valid", !.form = new,
                           !.obj = IF settings = << >> THEN 0 ELSE 1]]
    /\ UNCHANGED <<settings, specialPeriods, staff, logs, today, rows, pc, web,
                   batch, cron, period, writer, current, idem, edits, call,
                   punches, cancels, now, created, cancelled, cache>>

\* PayrollConfigView.form_valid: _company_setting.cache_clear()
ConfigClearCache(r) ==
    /\ req[r].pc = "form_valid"
    /\ cache' = NoCache
    /\ req' = [req EXCEPT ![r].pc = "save"]
    /\ UNCHANGED <<settings, specialPeriods, staff, logs, today, rows, pc, web,
                   batch, cron, period, writer, current, idem, edits, call,
                   punches, cancels, now, created, cancelled>>

\* PayrollConfigView.form_valid: super().form_valid(form) saves the form,
\* an UPDATE of the row fetched or an INSERT when there was none
ConfigSave(r) ==
    /\ req[r].pc = "save"
    /\ edits < MaxEdits
    /\ settings' = IF req[r].obj = 0 THEN Append(settings, req[r].form)
                   ELSE [settings EXCEPT ![req[r].obj] = req[r].form]
    /\ req' = [req EXCEPT ![r] = Responded(@)]
    /\ edits' = edits + 1
    /\ MarkStale(pc, web, batch, cron)
    /\ UNCHANGED <<specialPeriods, staff, logs, today, rows, pc, period,
                   writer, idem, call, punches, cancels, now, created,
                   cancelled, cache>>

\* the admin's add view: has_add_permission allows it while no row exists
AdminAddCheck(r, new) ==
    /\ req[r].pc = "idle"
    /\ settings = << >>
    /\ req' = [req EXCEPT ![r] = [@ EXCEPT !.pc = "admin_add", !.form = new]]
    /\ UNCHANGED <<settings, specialPeriods, staff, logs, today, rows, pc, web,
                   batch, cron, period, writer, current, idem, edits, call,
                   punches, cancels, now, created, cancelled, cache>>

\* the admin's add view saves the new row
AdminAddSave(r) ==
    /\ req[r].pc = "admin_add"
    /\ edits < MaxEdits
    /\ settings' = Append(settings, req[r].form)
    /\ req' = [req EXCEPT ![r] = Responded(@)]
    /\ edits' = edits + 1
    /\ MarkStale(pc, web, batch, cron)
    /\ UNCHANGED <<specialPeriods, staff, logs, today, rows, pc, period,
                   writer, idem, call, punches, cancels, now, created,
                   cancelled, cache>>

\* the admin's change view, or a save by another process: the row
\* changes, the cache of this process is not cleared
AdminChange(i, new) ==
    /\ edits < MaxEdits
    /\ i \in 1..Len(settings)
    /\ new # settings[i]
    /\ settings' = [settings EXCEPT ![i] = new]
    /\ edits' = edits + 1
    /\ MarkStale(pc, web, batch, cron)
    /\ UNCHANGED <<specialPeriods, staff, logs, today, rows, pc, period,
                   writer, idem, call, punchVars, cache>>

\* _company_setting(): the value cached by an earlier call, or
\* PayrollSetting.objects.first(), which is then cached
_company_setting ==
    IF cache.filled THEN cache.value ELSE FirstSetting(settings)

\* _actual_work_durations_for_month(s, ym): compute_work_durations with
\* company = _company_setting(), which reads the table itself when it is
\* given None; an exception gives zero durations
ViewAggregate(s, ym) ==
    LET setting == _company_setting
        company == IF setting = NoSetting THEN FirstSetting(settings)
                   ELSE setting
        per == resolve_payroll_period(ym, company)
        zero == [normal |-> 0, special |-> 0, holiday |-> 0]
    IN  /\ cache' = [filled |-> TRUE, value |-> setting]
        /\ call' = [fn |-> "view", company |-> company,
                    stored |-> FirstSetting(settings),
                    start |-> per.start, end |-> per.end,
                    totals |-> IF per.err THEN zero
                               ELSE AggregateLocals(logs, specialPeriods,
                                        staff[s], s, per.start, per.end,
                                        company).totals]
        /\ UNCHANGED <<settings, specialPeriods, staff, logs, today, rows, pc,
                       web, batch, cron, period, writer, current, idem,
                       edits, punchVars>>

NextConfig ==
    \/ \E r \in Reqs, new \in SettingChoices : ConfigGet(r, new)
    \/ \E r \in Reqs : ConfigClearCache(r)
    \/ \E r \in Reqs : ConfigSave(r)
    \/ \E r \in Reqs, new \in SettingChoices : AdminAddCheck(r, new)
    \/ \E r \in Reqs : AdminAddSave(r)
    \/ \E i \in 1..2, new \in SettingChoices : AdminChange(i, new)
    \/ \E s \in Staffs, ym \in YMs : ViewAggregate(s, ym)

SpecConfig == InitConfig /\ [][NextConfig]_vars

\* ------------------------------------------------------------------------
\* What the stored rows are compared with
\* ------------------------------------------------------------------------

\* the row of key k, where there is exactly one
RowOf(k) == Head(rows[k])

\* the period of the key's year-month under the configuration as it is now
PeriodNow(k) == resolve_payroll_period(k[2], FirstSetting(settings))

\* the key's category durations from the punches and configuration as they
\* are now
DursNow(k) ==
    _aggregate_durations(logs, specialPeriods, k[1], PeriodNow(k).start,
                         PeriodNow(k).end, FirstSetting(settings))

\* quarter hours of a duration, rounded half up
Q(td) == _round_qtr(_hours(td))

\* the row of key k was committed by build_monthly_payroll and no input
\* has changed since that call read them
BuiltFromCurrentInputs(k) ==
    Len(rows[k]) = 1 /\ writer[k] = "build" /\ current[k]

\* ------------------------------------------------------------------------
\* C1
\* ------------------------------------------------------------------------

\* C1: after any interleaving of build_monthly_payroll and
\* generate_monthly_payroll calls the store holds at most one MonthlyPayroll
\* row for each (staff, year_month) pair.
C1_OneRowPerKey == \A k \in Keys : Len(rows[k]) <= 1

\* a create met the row another call had stored in the meantime
C1_Witness ==
    \E p \in {"web", "batch"} :
        /\ pc[p] = "reget"
        /\ \E k \in Keys : Len(rows[k]) = 1

\* ------------------------------------------------------------------------
\* C2
\* ------------------------------------------------------------------------

\* C2: a second build_monthly_payroll of the same staff and year-month, with
\* no change of punches, profile or configuration since the first, leaves
\* every field of the row as the first call left it.
C2_BuildIdempotent == \A k \in Keys : idem[k] # "diff"

\* a second build of a key has been committed over the first
C2_Witness == \E k \in Keys : idem[k] = "same" /\ Len(rows[k]) = 1

\* ------------------------------------------------------------------------
\* C3
\* ------------------------------------------------------------------------

\* C3: after build_monthly_payroll(staff, ym) every derived field of the
\* row (total, normal, special and holiday durations, gross pay, commute
\* allowance, the five deductions) holds the value computed from the
\* current punches, profile and configuration.
C3_BuildReplacesDerivedFields ==
    \A k \in Keys : BuiltFromCurrentInputs(k) =>
        LET d == BuildDefaults(staff[k[1]], FirstSetting(settings), DursNow(k),
                               IncludeCommute)
        IN  RowOf(k) = [f \in DOMAIN DefaultRow |->
                          IF f = "normal_hours"
                          THEN QuartersToMinutes(BuildNormalQ(DursNow(k)))
                          ELSE d[f]]

\* ------------------------------------------------------------------------
\* C4
\* ------------------------------------------------------------------------

\* C4: when the computation for a staff of generate_monthly_payroll's batch
\* raises, every MonthlyPayroll row is as before the call: no step of the
\* call other than its final commit changes a stored row, and at the
\* failure none of its writes is left to be committed.
C4_BatchAllOrNothing ==
    /\ [](pc["batch"] = "failed" =>
            \A k \in Keys : batch.pending[k].op = "none")
    /\ [][((batch' # batch \/ pc'["batch"] # pc["batch"])
            /\ ~(pc["batch"] = "loop" /\ pc'["batch"] = "idle"))
           => rows' = rows]_vars

\* the batch failed after an earlier staff of it had been processed
C4_Witness == pc["batch"] = "failed" /\ batch.nDone >= 1

\* ------------------------------------------------------------------------
\* C5
\* ------------------------------------------------------------------------

\* the values payroll_recalc_daily computes for key k from the inputs as
\* they are now
RecalcResult(k) ==
    CronFields(DefaultRow, staff[k[1]], FirstSetting(settings),
               CronAggregate(logs, k[1], today, FirstSetting(settings)), today)

\* C5: a reader never sees a half-written row: a row that a recalculation
\* has stored for a key that had none holds the values of that
\* recalculation's completed computation.
C5_NoPartialRowVisible ==
    \A k \in Keys :
        (Len(rows[k]) = 1 /\ writer[k] = "default") =>
            RowOf(k) = RecalcResult(k)

\* ------------------------------------------------------------------------
\* C6
\* ------------------------------------------------------------------------

\* C6: for an hourly staff the pay in gross, before the commute allowance,
\* is floor(rate x q(normal)) + floor(rate x q(special) x special_rate)
\* + floor(rate x q(holiday) x special_rate).
C6_HourlyGrossPerCategory ==
    \A k \in Keys :
        (BuiltFromCurrentInputs(k) /\ staff[k[1]].wage_type = "hourly") =>
            LET rate == staff[k[1]].hourly_rate
                sr == FirstSetting(settings).special_rate
                durs == DursNow(k)
            IN  RowOf(k).gross_pay - RowOf(k).commute_allowance
                = (rate * Q(durs.normal)) \div 4
                  + (rate * Q(durs.special) * sr) \div 400
                  + (rate * Q(durs.holiday) * sr) \div 400

\* ------------------------------------------------------------------------
\* C7
\* ------------------------------------------------------------------------

\* worked days of the key's period: the days with a positive duration
WorkedDaysNow(k) ==
    Cardinality(DailyKeys(_iter_inout_pairs(logs, k[1], PeriodNow(k).start,
                                            PeriodNow(k).end),
                          FirstSetting(settings)))

\* C7: for a salaried staff the base pay recorded is what the configured
\* deduction method yields from the monthly salary and the period's worked
\* days or hours (fixed_salary_pay).
C7_SalariedBaseByMethod ==
    \A k \in Keys :
        (BuiltFromCurrentInputs(k) /\ staff[k[1]].wage_type = "salary") =>
            LET ym == _parse_ym(k[2])
                durs == DursNow(k)
                pay == fixed_salary_pay(
                           staff[k[1]].monthly_salary,
                           staff[k[1]].payroll_info.deduct_method,
                           WorkedDaysNow(k),
                           durs.normal + durs.special + durs.holiday,
                           0, 0, <<ym.year, ym.month>>,
                           <<today[1], today[2]>>)
            IN  /\ ~pay.err
                /\ RowOf(k).gross_pay - RowOf(k).commute_allowance
                   = pay.n \div pay.d

\* ------------------------------------------------------------------------
\* C8
\* ------------------------------------------------------------------------

\* C8: for every row written by build_monthly_payroll the record's net pay
\* is gross pay minus the five deductions; the commute allowance is not
\* subtracted.
C8_NetPayOfRecord ==
    \A k \in Keys :
        (Len(rows[k]) = 1 /\ writer[k] = "build") =>
            net_pay(RowOf(k))
            = RowOf(k).gross_pay
              - (RowOf(k).employment_insurance + RowOf(k).health_insurance
                 + RowOf(k).pension + RowOf(k).resident_tax
                 + RowOf(k).withholding_tax)

\* ------------------------------------------------------------------------
\* C9
\* ------------------------------------------------------------------------

\* C9: in every row written by build_monthly_payroll or by
\* payroll_recalc_daily the employment insurance is
\* floor(gross x employment-insurance rate) for an insured staff and 0 for
\* one who is not insured.
C9_EmploymentInsurance ==
    \A k \in Keys :
        (Len(rows[k]) = 1 /\ writer[k] \in {"build", "recalc"} /\ current[k])
        => RowOf(k).employment_insurance
           = IF staff[k[1]].payroll_info.employment_insured
             THEN (RowOf(k).gross_pay
                   * FirstSetting(settings).employment_ins_rate) \div 1000000
             ELSE 0

\* ------------------------------------------------------------------------
\* C10
\* ------------------------------------------------------------------------

\* C10: for closing day d >= 28 the period of (Y, M) is the calendar month,
\* December ending on 1 January of Y+1; for d < 28 it runs from day d+1 of
\* the previous month (December of Y-1 for January) to day d+1 of month M;
\* the start is before the end.
C10_ResolvePeriod ==
    period.called =>
        LET d == FirstSetting(settings).closing_day
            Y == period.year
            M == period.month
            r == period.result
        IN  /\ ~r.err
            /\ d >= 28 =>
                  /\ r.start = MkDateTime(Y, M, 1)
                  /\ r.end = IF M = 12 THEN MkDateTime(Y + 1, 1, 1)
                             ELSE MkDateTime(Y, M + 1, 1)
            /\ d < 28 =>
                  /\ r.start = IF M = 1 THEN MkDateTime(Y - 1, 12, d + 1)
                               ELSE MkDateTime(Y, M - 1, d + 1)
                  /\ r.end = MkDateTime(Y, M, d + 1)
            /\ r.start < r.end

\* January resolved under closing day 25: the period starts in December
C10_Witness ==
    /\ period.called
    /\ FirstSetting(settings).closing_day = 25
    /\ period.month = 1
    /\ period.result.start = MkDateTime(period.year - 1, 12, 26)

\* ------------------------------------------------------------------------
\* C11
\* ------------------------------------------------------------------------

\* C11: for every stored closing day that is not an integer in 1..31
\* (missing, zero, negative, above 31) the Period Resolver resolves the
\* calendar month, as for closing day 31.
C11_InvalidClosingDayIs31 ==
    (period.called
     /\ (settings = << >> \/ Head(settings).closing_day \notin 1..31))
    => /\ ~period.result.err
       /\ period.result.start = MkDateTime(period.year, period.month, 1)
       /\ period.result.end
          = IF period.month = 12 THEN MkDateTime(period.year + 1, 1, 1)
            ELSE MkDateTime(period.year, period.month + 1, 1)

\* ------------------------------------------------------------------------
\* C12
\* ------------------------------------------------------------------------

\* not exactly six decimal digits
Malformed(ym) ==
    Len(ym) # 6
    \/ \E i \in 1..Len(ym) :
          ym[i] \notin {"0", "1", "2", "3", "4", "5", "6", "7", "8", "9"}

Aggregated == call.fn = "_aggregate_durations"

\* the events the call walks: those of the staff member inside [start, end)
WalkedEvents ==
    {lg \in logs : lg.staff = call.staff /\ call.start <= lg.timestamp
                   /\ lg.timestamp < call.end}

EmittedPairs == {<<call.pairs[i].cin, call.pairs[i].cout>> : i \in 1..Len(call.pairs)}

\* a is the check-in pending when the check-out b arrives: a check-in
\* before b with no event of the walk between them
PendingAt(a, b) ==
    /\ a.action = CHECK_IN
    /\ b.action = CHECK_OUT
    /\ a.timestamp < b.timestamp
    /\ \A c \in WalkedEvents : ~(a.timestamp < c.timestamp /\ c.timestamp < b.timestamp)

\* C13: _iter_inout_pairs emits exactly the (pending check-in, check-out)
\* pairs of the walk over the events of [start, end) in ascending order: a
\* check-in replaced by a later check-in, a check-out with nothing pending
\* and a check-in pending at the end are in no pair; every event is in at
\* most one pair and the emitted shifts follow one another without overlap
C13_PairingRule ==
    Aggregated =>
        /\ EmittedPairs = {<<a.timestamp, b.timestamp>> : <<a, b>> \in {x \in WalkedEvents \X WalkedEvents : PendingAt(x[1], x[2])}}
        /\ Cardinality(EmittedPairs) = Len(call.pairs)
        /\ \A i \in 1..Len(call.pairs) : call.pairs[i].cin < call.pairs[i].cout
        /\ \A i \in 1..(Len(call.pairs) - 1) : call.pairs[i].cout < call.pairs[i + 1].cin
        /\ \A lg \in WalkedEvents :
              Cardinality({i \in 1..Len(call.pairs) : lg.timestamp \in {call.pairs[i].cin, call.pairs[i].cout}}) <= 1

\* two check-ins, then two check-outs: one pair, of the inner two events,
\* in a period that also holds a check-out at the very end of the window
C13_Witness ==
    /\ Aggregated
    /\ call.staff = "s1"
    /\ {lg.timestamp : lg \in {x \in logs : x.staff = "s1"}}
         = {T(2025, 1, 5, 22, 0), T(2025, 1, 5, 23, 0), T(2025, 1, 6, 2, 0), T(2025, 1, 6, 3, 0)}
    /\ call.pairs = <<[cin |-> T(2025, 1, 5, 23, 0), cout |-> T(2025, 1, 6, 2, 0)]>>

\* a check-in on the last evening whose check-out is stamped at `end` is
\* left pending
C13_WitnessEnd ==
    /\ Aggregated
    /\ call.staff = "s1"
    /\ Log("s1", CHECK_IN, T(2025, 1, 31, 23, 0)) \in logs
    /\ Log("s1", CHECK_OUT, T(2025, 2, 1, 0, 0)) \in logs
    /\ call.pairs = << >>

\* the special date ranges that are configured: every SpecialPeriod row and
\* the setting's New Year, Bon and Golden Week ranges with both dates set
ConfiguredSpecialRanges ==
    {<<sp.start, sp.end>> : sp \in specialPeriods}
    \cup (IF settings = << >> THEN {}
          ELSE {r \in {<<Head(settings).new_year_from, Head(settings).new_year_to>>,
                       <<Head(settings).bon_from, Head(settings).bon_to>>,
                       <<Head(settings).gw_from, Head(settings).gw_to>>} :
                  r[1] # NoDate /\ r[2] # NoDate})

ConfiguredWeeklyHolidays ==
    IF settings = << >> THEN {} ELSE Head(settings).weekly_holidays

\* the category of civil date d: special before holiday before normal
CategoryOfDate(d) ==
    IF \E r \in ConfiguredSpecialRanges : r[1] <= d /\ d <= r[2] THEN "special"
    ELSE IF Weekday(d) \in ConfiguredWeeklyHolidays THEN "holiday"
    ELSE "normal"

\* C14: every shift pair gets the one category of its check-in's civil
\* date: special if the date lies in a special date range, otherwise
\* holiday if its weekday is a weekly holiday, otherwise normal
C14_CategoryByCheckInDate ==
    Aggregated =>
        \A i \in 1..Len(call.pairs) :
            call.kinds[i] = CategoryOfDate(DateOf(call.pairs[i].cin))

\* C15: a shift whose check-in date lies in the New Year, Bon or Golden
\* Week range of the setting (both dates set), the ranges the scheduled
\* job's is_special reads, is classified special by _aggregate_durations
C15_NamedRangesAreSpecial ==
    Aggregated =>
        \A i \in 1..Len(call.pairs) :
            (\E r \in CronSpecialRanges(FirstSetting(settings)) :
                r[1] <= DateOf(call.pairs[i].cin) /\ DateOf(call.pairs[i].cin) <= r[2])
            => call.kinds[i] = "special"

\* the lunch window of the setting (12:00-13:00 without a setting row), as
\* minutes of the clock
LunchFrom == IF settings = << >> THEN 12 * 60 ELSE Head(settings).lunch_break_from

LunchTo == IF settings = << >> THEN 13 * 60 ELSE Head(settings).lunch_break_to

\* the minutes of [cin, cout) that lie in the lunch window placed on the
\* civil date of cin
LunchMinutes(cin, cout) ==
    LET midnight == (DateOf(cin) - EpochOrd) * MinPerDay
        from == midnight + LunchFrom
        to == midnight + LunchTo
    IN  {t \in cin..(cout - 1) : from <= t /\ t < to}

\* the durations of the shifts 1..i that checked in on civil date d
RECURSIVE DurationsOn(_, _)
DurationsOn(i, d) ==
    IF i = 0 THEN 0
    ELSE (IF DateOf(call.pairs[i].cin) = d THEN call.durations[i] ELSE 0)
         + DurationsOn(i - 1, d)

DayTotal(b) == b.normal + b.special + b.holiday

\* C17: the flat deduction takes min(15 minutes, the day's total) off the
\* day's buckets, from normal first, then special, then holiday, no bucket
\* giving more than it holds; a day without recorded time is left as it is
C17_FlatDeductionInOrder ==
    call.fn = "flat" =>
        /\ DayTotal(call.before) - DayTotal(call.after)
           = (IF DayTotal(call.before) < 15 THEN DayTotal(call.before) ELSE 15)
        /\ \A k \in {"normal", "special", "holiday"} :
              0 <= call.after[k] /\ call.after[k] <= call.before[k]
        /\ call.after.special < call.before.special => call.after.normal = 0
        /\ call.after.holiday < call.before.holiday
              => (call.after.normal = 0 /\ call.after.special = 0)
        /\ DayTotal(call.before) = 0 => call.after = call.before

\* the day of the example: 10, 3 and 20 minutes end as 0, 0 and 18
C17_Witness ==
    /\ call.fn = "flat"
    /\ call.before = [normal |-> 10, special |-> 3, holiday |-> 20]
    /\ call.after = [normal |-> 0, special |-> 0, holiday |-> 18]

\* ------------------------------------------------------------------------
\* Claims about the period totals
\* ------------------------------------------------------------------------

\* the durations of the shifts 1..i
RECURSIVE DurationsUpTo(_)
DurationsUpTo(i) ==
    IF i = 0 THEN 0 ELSE call.durations[i] + DurationsUpTo(i - 1)

\* the civil days on which a shift of the call checked in
CheckInDays == {DateOf(call.pairs[i].cin) : i \in 1..Len(call.pairs)}

\* min(15 minutes, the day's break-adjusted time), added up over days
RECURSIVE FlatTaken(_)
FlatTaken(days) ==
    IF days = {} THEN 0
    ELSE LET d == CHOOSE x \in days : TRUE
             t == DurationsOn(Len(call.pairs), d)
         IN  (IF t < 15 THEN t ELSE 15) + FlatTaken(days \ {d})

\* C18 as stated: normal + special + holiday of the period equals the sum
\* of the break-adjusted durations of all its shift pairs
C18_TotalsAreShiftSum ==
    Aggregated =>
        call.totals.normal + call.totals.special + call.totals.holiday
        = DurationsUpTo(Len(call.pairs))

\* C18 amended: normal + special + holiday of the period equals the sum of
\* the break-adjusted durations of all its shift pairs less, for every
\* civil day of check-in, min(15 minutes, that day's break-adjusted time)
C18_TotalsAreShiftSumLessFlat ==
    Aggregated =>
        call.totals.normal + call.totals.special + call.totals.holiday
        = DurationsUpTo(Len(call.pairs)) - FlatTaken(CheckInDays)

\* two days of work, one of them shorter than the flat deduction
C18_Witness ==
    /\ Aggregated
    /\ \E d \in CheckInDays : DurationsOn(Len(call.pairs), d) \in 1..14
    /\ \E d \in CheckInDays : DurationsOn(Len(call.pairs), d) > 15
    /\ call.totals.normal + call.totals.special + call.totals.holiday > 0
    /\ call.totals.normal + call.totals.special + call.totals.holiday
         < DurationsUpTo(Len(call.pairs))

MissingWage(staffRec) ==
    \/ staffRec.wage_type = "hourly" /\ staffRec.hourly_rate = 0
    \/ staffRec.wage_type = "salary" /\ staffRec.monthly_salary = 0

\* C20: build_monthly_payroll for a staff member whose wage is missing
\* ends in an error: it does not go on to store, and no MonthlyPayroll
\* row of that staff member exists
C20_MissingWageRaises ==
    \A s \in Staffs :
        MissingWage(staff[s]) =>
            /\ \A ym \in YMs : rows[Key(s, ym)] = << >>
            /\ ~(pc["web"] \in {"get", "create", "reget"} /\ web.staff = s)

\* the row written for an hourly staff member without a rate: worked
\* hours and a gross pay of the commute allowance alone
C20_ZeroPayStored ==
    /\ staff["s1"].wage_type = "hourly" /\ staff["s1"].hourly_rate = 0
    /\ \E ym \in YMs :
          /\ Len(rows[Key("s1", ym)]) = 1
          /\ Head(rows[Key("s1", ym)]).total_hours > 0
          /\ Head(rows[Key("s1", ym)]).gross_pay
               = Head(rows[Key("s1", ym)]).commute_allowance

\* ------------------------------------------------------------------------
\* Claims about the deduction method of salaried staff
\* ------------------------------------------------------------------------

\* C21: with a deduction-method code outside the eight enumerated ones,
\* fixed_salary_pay and daily_or_hourly_unit raise, and
\* build_monthly_payroll for that salaried staff member ends in the error:
\* it does not go on to store and no MonthlyPayroll row of theirs exists
C21_UnknownMethodAborts ==
    /\ (call.fn \in {"fixed_salary_pay", "daily_or_hourly_unit"}
        /\ call.method \notin DeductMethods) => call.result.err
    /\ \A s \in Staffs :
          (staff[s].wage_type = "salary"
           /\ staff[s].payroll_info.deduct_method \notin DeductMethods)
          => /\ \A ym \in YMs : rows[Key(s, ym)] = << >>
             /\ ~(pc["web"] \in {"get", "create", "reget"} /\ web.staff = s)

\* the two helpers do raise for an unknown code
C21_HelpersRaise ==
    (call.fn \in {"fixed_salary_pay", "daily_or_hourly_unit"}
     /\ call.method \notin DeductMethods) => call.result.err

\* a row stored for a salaried staff member whose code is unknown
C21_RowStored ==
    /\ staff["s2"].payroll_info.deduct_method = "bogus"
    /\ \E ym \in YMs : Len(rows[Key("s2", ym)]) = 1
                        /\ Head(rows[Key("s2", ym)]).gross_pay > 0

PayCall == call.fn = "fixed_salary_pay" /\ "worked_hours" \in DOMAIN call

\* the calendar days of the target date's month
TargetDays == DaysInMonth(call.tdate[1], call.tdate[2])

\* C22: for the no-work-no-pay method fixed_salary_pay returns
\* salary - (salary / D) x (D - worked_days), D the calendar days of the
\* target date's month, on whatever day it is called; for the
\* no-deduction method it returns the salary
C22_NoWorkNoPayAndNoDeduct ==
    PayCall =>
        /\ call.method = "nowork" =>
              /\ ~call.result.err
              /\ call.result.n * TargetDays
                 = (call.salary * TargetDays - call.salary * (TargetDays - call.worked_days))
                   * call.result.d
        /\ call.method = "no_deduct" =>
              /\ ~call.result.err
              /\ call.result.n = call.salary * call.result.d

\* the no-deduction part alone, and no-work-no-pay called in a month as
\* long as the target month
C22_WhenCalledInAnEqualMonth ==
    PayCall =>
        /\ (call.method = "nowork" /\ DaysInMonth(today[1], today[2]) = TargetDays) =>
              /\ ~call.result.err
              /\ call.result.n * TargetDays
                 = (call.salary * TargetDays - call.salary * (TargetDays - call.worked_days))
                   * call.result.d
        /\ call.method = "no_deduct" =>
              /\ ~call.result.err
              /\ call.result.n = call.salary * call.result.d

\* ------------------------------------------------------------------------
\* Claims about shifts across a period boundary
\* ------------------------------------------------------------------------

\* a shift of the call's staff member that checks in before instant B and
\* out at or after it: a check-in and the next punch, a check-out
CrossesAt(a, b, B) ==
    /\ a.staff = call.staff /\ b.staff = call.staff
    /\ a.action = CHECK_IN /\ b.action = CHECK_OUT
    /\ a.timestamp < B /\ B <= b.timestamp
    /\ \A c \in logs : c.staff = call.staff
          => ~(a.timestamp < c.timestamp /\ c.timestamp < b.timestamp)

\* C26: a shift that checks in before a boundary of the computed period
\* and out at or after it contributes no time to that period, be it the
\* period that ends at the boundary or the one that starts at it: no pair
\* of the period covers any of its time
C26_BoundaryShiftExcluded ==
    Aggregated =>
        \A a \in logs, b \in logs, B \in {call.start, call.end} :
            CrossesAt(a, b, B) =>
                \A i \in 1..Len(call.pairs) :
                    ~(call.pairs[i].cin < b.timestamp /\ a.timestamp < call.pairs[i].cout)

\* closing day 25, the period that starts on 26 January: the shift of
\* 25 January 22:00 - 26 January 02:00 is left out, the shift of 26 January
\* 08:00 - 09:00 is counted
C26_Witness ==
    /\ Aggregated
    /\ call.staff = "s1"
    /\ call.start = T(2025, 1, 26, 0, 0)
    /\ Log("s1", CHECK_IN, T(2025, 1, 25, 22, 0)) \in logs
    /\ Log("s1", CHECK_OUT, T(2025, 1, 26, 2, 0)) \in logs
    /\ Log("s1", CHECK_OUT, T(2025, 1, 26, 0, 0)) \notin logs
    /\ call.pairs = <<[cin |-> T(2025, 1, 26, 8, 0), cout |-> T(2025, 1, 26, 9, 0)]>>
    /\ call.totals.normal + call.totals.special + call.totals.holiday = 45

\* the same shift seen from the period that ends on 26 January
C26_WitnessBefore ==
    /\ Aggregated
    /\ call.staff = "s1"
    /\ call.end = T(2025, 1, 26, 0, 0)
    /\ Log("s1", CHECK_IN, T(2025, 1, 25, 22, 0)) \in logs
    /\ Log("s1", CHECK_OUT, T(2025, 1, 26, 2, 0)) \in logs
    /\ Log("s1", CHECK_OUT, T(2025, 1, 26, 0, 0)) \notin logs
    /\ call.pairs = <<[cin |-> T(2025, 1, 24, 9, 0), cout |-> T(2025, 1, 24, 10, 0)]>>

\* ------------------------------------------------------------------------
\* Claims about the scheduled recalculation
\* ------------------------------------------------------------------------

\* the gross pay the wage of staff member s gives for the month of today:
\* per category for an hourly rate, fixed_salary_pay for a salary, 0 when
\* the staff member has neither
GrossFromWage(s) ==
    LET setting == FirstSetting(settings)
        agg == CronAggregate(logs, s, today, setting)
        rate == IF setting.present /\ setting.special_rate # 0
                THEN setting.special_rate ELSE 100
        hr == staff[s].hourly_rate
        pay == fixed_salary_pay(staff[s].monthly_salary,
                   staff[s].payroll_info.deduct_method, agg.worked_days,
                   agg.normal + agg.special + agg.holiday, 0, 0,
                   <<today[1], today[2]>>, <<today[1], today[2]>>)
    IN  IF staff[s].wage_type = "hourly" /\ hr # 0
        THEN (hr * RoundHalfUp(agg.normal, 15)) \div 4
             + (hr * RoundHalfUp(agg.special, 15) * rate) \div 400
             + (hr * RoundHalfUp(agg.holiday, 15) * rate) \div 400
        ELSE IF staff[s].wage_type = "salary" /\ staff[s].monthly_salary # 0
        THEN pay.n \div pay.d
        ELSE 0

\* C29: a row written by payroll_recalc_daily from the inputs as they are
\* carries the gross pay computed from the wage: the three floored
\* category amounts for hourly staff with a rate, the fixed_salary_pay
\* result for salaried staff with a salary, 0 only without either
C29_RecalcGrossFromWage ==
    \A k \in Keys :
        (Len(rows[k]) = 1 /\ writer[k] = "recalc" /\ current[k])
        => RowOf(k).gross_pay = GrossFromWage(k[1])

\* ------------------------------------------------------------------------
\* Claims about the daily closing-day task
\* ------------------------------------------------------------------------

\* the task has run on every day of the watched month
MonthOver ==
    /\ call.fn = "generate_monthly_if_closing_day"
    /\ <<today[1], today[2]>> # call.month

\* C30: with the task run once on every day of a month and a setting row
\* with closing day 1..31, the batch recomputation is triggered on exactly
\* one day of the month
C30_OneTriggerPerMonth ==
    (MonthOver /\ settings # << >> /\ Head(settings).closing_day \in 1..31)
    => Len(call.triggered) = 1

\* the same for the closing days the month has
C30_WhenTheMonthHasTheDay ==
    (MonthOver /\ settings # << >>
     /\ Head(settings).closing_day \in 1..DaysInMonth(call.month[1], call.month[2]))
    => (Len(call.triggered) = 1
        /\ call.triggered[1] = <<call.month[1], call.month[2], Head(settings).closing_day>>)

\* April 2025 with closing day 31: no day triggers
C30_NoTrigger ==
    /\ MonthOver
    /\ call.month = <<2025, 4>>
    /\ settings # << >> /\ Head(settings).closing_day = 31
    /\ call.triggered = << >>


\* C23: after any punch submissions of one staff member that carry the same
\* idempotency key, in sequence or interleaved, the store holds one
\* AttendanceLog row with that staff and key, never two.
C23_OneRowPerIdempotencyKey ==
    \A p \in punches, q \in punches :
        (p.staff = q.staff /\ p.idempotency_key # NoKey
            /\ p.idempotency_key = q.idempotency_key) => p = q

\* two requests are past the lookup with the same staff and key
C23_BothPastLookup ==
    /\ req["r1"].pc = "create"
    /\ req["r2"].pc = "create"
    /\ req["r1"].staff = req["r2"].staff
    /\ req["r1"].key # NoKey
    /\ req["r1"].key = req["r2"].key

\* C24: after any sequence of punches and cancellations the number of
\* CancelLog entries equals the number of successful cancellations.
C24_CancelLogPerCancellation == Cardinality(cancels) = cancelled

\* a cancellation succeeded
C24_Cancelled == cancelled > 0

\* the punch a successful cancellation removed is the staff member's most
\* recent one, and only that one
C24_RemovesTheLastPunch ==
    [][cancelled' # cancelled =>
        \E last \in punches :
            /\ punches' = punches \ {last}
            /\ \E r \in Reqs : last \in LastPunches(req[r].session)]_vars

\* C28: no two AttendanceLog rows of the same staff member have server
\* timestamps less than 60 seconds apart, whatever their actions.
C28_PunchesOneIntervalApart ==
    \A p \in punches, q \in punches :
        (p.staff = q.staff /\ p # q) =>
            \/ p.timestamp - q.timestamp >= ACTION_INTERVAL_SEC
            \/ q.timestamp - p.timestamp >= ACTION_INTERVAL_SEC

\* two requests for one staff member are past the interval check
C28_BothPastCheck ==
    /\ req["r1"].pc \in {"punch", "create"}
    /\ req["r2"].pc \in {"punch", "create"}
    /\ req["r1"].staff = req["r2"].staff

\* a punch registered outside the interval of the one before it
C28_LaterPunchStored ==
    \E p \in punches, q \in punches :
        p.staff = q.staff /\ q.timestamp - p.timestamp >= ACTION_INTERVAL_SEC


\* C25: after a change to the PayrollSetting row by any path, every later
\* computation, the view-side aggregation through _company_setting
\* included, uses the stored values and never an earlier snapshot.
C25_ViewUsesStoredSetting ==
    call.fn = "view" => call.company = call.stored

\* the cache holds a row that has since been changed
C25_CacheIsStale ==
    /\ cache.filled
    /\ cache.value # NoSetting
    /\ cache.value # FirstSetting(settings)

\* the stale snapshot moves the period the view aggregates over
C25_SamePeriodAsStored ==
    call.fn = "view" =>
        LET per == resolve_payroll_period(YM202501, call.stored)
        IN  ~per.err => (call.start = per.start /\ call.end = per.end)

\* C27: after any interleaving of configuration create and update
\* operations at most one PayrollSetting row exists.
C27_AtMostOneSetting == Len(settings) <= 1

\* two requests are about to insert a row
C27_TwoInserts ==
    /\ req["r1"].pc \in {"save", "admin_add"}
    /\ req["r2"].pc \in {"save", "admin_add"}
    /\ req["r1"].pc = "save" => req["r1"].obj = 0
    /\ req["r2"].pc = "save" => req["r2"].obj = 0

====
